---- MODULE Spec2Model ----
(***************************************************************************)
(* Graph algorithms on dense matrices: adjacency <-> incidence conversion, *)
(* reachability, Dijkstra, Floyd-Warshall, Prim, Edmonds-Karp max-flow,     *)
(* exact colouring, isomorphism, tree check and height, BFS/DFS, and the    *)
(* main functions that ask for vertices.  Every program of the repository is a *)
(* separate single-threaded invocation; each has its own specification      *)
(* over the variables of that program, the other programs' variables idle.  *)
(* Vertices are 0-based as in the code; a matrix is a function             *)
(* [0..n-1 -> [0..n-1 -> Int]], a Python list is a sequence.                *)
(***************************************************************************)
EXTENDS Integers, Sequences, FiniteSets, TLC

VARIABLES
    pc,          \* position of the running program
    \* the graph under work, immutable once built
    adj,         \* Graph.adj: 0/1 adjacency matrix
    w,           \* WeightedGraph.w: weight matrix, 0 off the diagonal = no edge
    cap,         \* FlowNetwork.cap: capacity matrix
    other,       \* is_isomorphic_to: other.adj, the second graph
    \* adjacency <-> incidence
    inc,         \* incidence matrix returned by Graph.incidence_matrix
    edges_list,  \* edge list returned by Graph.incidence_matrix
    adj_back,    \* matrix returned by IncidenceGraph.to_adjacency_matrix
    \* Dijkstra
    start,       \* dijkstra(start)
    dist,        \* dijkstra: dist
    prev,        \* dijkstra: prev
    heap,        \* dijkstra: heap, kept in pop order
    target,      \* reconstruct_path: end
    sp_path,     \* reconstruct_path: the list returned
    \* Floyd-Warshall
    fw_dist,     \* floyd_warshall: dist
    nxt,         \* floyd_warshall: nxt
    fw_k,        \* floyd_warshall: k of the outer loop
    \* reachability
    reach,       \* reachability_matrix: reach
    reach_v,     \* reachability_matrix: v of the loop
    \* max-flow
    src,         \* max_flow_ford_fulkerson: s
    snk,         \* max_flow_ford_fulkerson: t
    residual,    \* max_flow_ford_fulkerson: residual
    max_flow,    \* max_flow_ford_fulkerson: max_flow
    augmenting_paths,  \* max_flow_ford_fulkerson: augmenting_paths
    path,        \* max_flow_ford_fulkerson: path of the current augmentation
    bottleneck,  \* max_flow_ford_fulkerson: bottleneck of the current augmentation
    edge_i,      \* max_flow_ford_fulkerson: i of the update loop
    returned,    \* max_flow_ford_fulkerson: the calls that have returned, in order
    \* Prim
    in_mst,      \* prim_mst: in_mst
    min_edge,    \* prim_mst: min_edge
    parent,      \* prim_mst: parent
    prim_iter,   \* prim_mst: iterations of the main loop done
    mst_edges,   \* prim_mst: the edge list returned
    total_weight, \* prim_mst: the weight returned
    \* colouring
    color_k,     \* chromatic_number: k of the loop
    chromatic,   \* chromatic_number: the number returned
    colors,      \* chromatic_number: the colouring returned
    \* isomorphism
    perm,        \* is_isomorphic_to: perm, the permutation generated last
    perms_tested, \* is_isomorphic_to: permutations generated so far
    iso_found,   \* is_isomorphic_to: the flag returned
    iso_perm,    \* is_isomorphic_to: the permutation returned
    \* tree check
    tree_ok,     \* main: the value of graph.is_tree()
    t_root,      \* tree_height_from_root: root
    t_dist,      \* tree_height_from_root: dist
    t_queue,     \* tree_height_from_root: queue
    height,      \* main: the height printed, or the dash
    \* the main functions that ask for vertices
    sel,         \* main: the vertex numbers typed, 1-based; <<>> for Enter
    trav_at,     \* traversal main: start
    bfs_order,   \* traversal main: bfs_order
    dfs_order,   \* traversal main: dfs_order
    fw_path,     \* Floyd-Warshall main: path
    \* reading a square matrix
    matrix,      \* from_file: matrix, the rows read from the file
    graph        \* from_file: the matrix of the object returned

graphVars == <<adj, w, cap, other>>
convVars == <<inc, edges_list, adj_back>>
dijkstraVars == <<start, dist, prev, heap>>
pathVars == <<target, sp_path>>
floydVars == <<fw_dist, nxt, fw_k>>
reachVars == <<reach, reach_v>>
flowVars == <<src, snk, residual, max_flow, augmenting_paths, path, bottleneck, edge_i,
              returned>>
primVars == <<in_mst, min_edge, parent, prim_iter, mst_edges, total_weight>>
colorVars == <<color_k, chromatic, colors>>
isoVars == <<perm, perms_tested, iso_found, iso_perm>>
treeVars == <<tree_ok, t_root, t_dist, t_queue, height>>
mainVars == <<sel, trav_at, bfs_order, dfs_order, fw_path>>
fileVars == <<matrix, graph>>
vars == <<pc, graphVars, convVars, dijkstraVars, pathVars, floydVars, reachVars, flowVars,
          primVars, colorVars, isoVars, treeVars, mainVars, fileVars>>

\* ------------------------------------------------------------------ bounds
ConvMaxN == 3      \* adjacency <-> incidence: vertex counts 1..ConvMaxN
SpMaxN == 3        \* shortest paths: vertex counts 1..SpMaxN
SpMaxEdges == 3    \* shortest paths: at most this many arcs
SpMaxW == 3        \* shortest paths: weights 1..SpMaxW
ReachMaxN == 3     \* reachability: vertex counts 1..ReachMaxN
FlowMaxN == 3      \* max-flow: vertex counts 1..FlowMaxN
FlowMaxEdges == 3  \* max-flow: at most this many arcs
FlowMaxCap == 2    \* max-flow: capacities 1..FlowMaxCap
PrimMaxN == 4      \* Prim: vertex counts 0..PrimMaxN
PrimMaxEdges == 4  \* Prim: at most this many edges
PrimMaxW == 2      \* Prim: weights 1..PrimMaxW
ColorMaxN == 4     \* colouring: vertex counts 0..ColorMaxN
IsoMaxN == 3       \* isomorphism: vertex counts 1..IsoMaxN
IsoMaxEdges == 2   \* isomorphism: at most this many arcs in each graph
TreeMaxN == 4      \* tree check: vertex counts 1..TreeMaxN
TreeMaxEdges == 4  \* tree check: at most this many edges
TreeMaxW == 2      \* tree check: weights 1..TreeMaxW
MainMaxN == 3      \* main functions: vertex counts 1..MainMaxN
MainMaxEdges == 2  \* main functions: at most this many arcs
MainMaxW == 1      \* main functions: weights -MainMaxW..MainMaxW
FwMaxN == 3        \* Floyd-Warshall on signed weights: vertex counts 1..FwMaxN
FwMaxEdges == 3    \* Floyd-Warshall on signed weights: at most this many arcs
FwMaxW == 1        \* Floyd-Warshall on signed weights: weights -FwMaxW..FwMaxW
IncMaxN == 3       \* incidence -> adjacency: vertex counts 1..IncMaxN
IncMaxM == 2       \* incidence -> adjacency: column counts 1..IncMaxM
FileMaxN == 2      \* reading a square matrix: row counts 1..FileMaxN
TravMaxN == 4      \* traversal: vertex counts 1..TravMaxN
TravMaxEdges == 4  \* traversal: at most this many arcs

\* ----------------------------------------------------------------- helpers
Idle == <<>>

Idx(n) == 0 .. (n - 1)

Len0(m) == Cardinality(DOMAIN m)

OffDiag(n) == {p \in Idx(n) \X Idx(n) : p[1] # p[2]}

\* every n x n matrix with a zero diagonal and off-diagonal entries in vals
LoopFreeMatrices(n, vals) ==
    {[i \in Idx(n) |-> [j \in Idx(n) |-> IF i = j THEN 0 ELSE f[<<i, j>>]]] :
        f \in [OffDiag(n) -> vals]}

RECURSIVE SortedSeq(_)
SortedSeq(S) ==
    IF S = {} THEN <<>>
    ELSE LET m == CHOOSE x \in S : \A y \in S : x <= y
         IN <<m>> \o SortedSeq(S \ {m})

\* no program has touched its working variables yet
WorkIdle ==
    /\ inc = Idle /\ edges_list = Idle /\ adj_back = Idle
    /\ start = Idle /\ dist = Idle /\ prev = Idle /\ heap = Idle
    /\ target = Idle /\ sp_path = Idle
    /\ fw_dist = Idle /\ nxt = Idle /\ fw_k = Idle
    /\ reach = Idle /\ reach_v = Idle
    /\ src = Idle /\ snk = Idle /\ residual = Idle /\ max_flow = Idle
    /\ augmenting_paths = Idle /\ path = Idle /\ bottleneck = Idle /\ edge_i = Idle
    /\ returned = Idle
    /\ in_mst = Idle /\ min_edge = Idle /\ parent = Idle /\ prim_iter = Idle
    /\ mst_edges = Idle /\ total_weight = Idle
    /\ color_k = Idle /\ chromatic = Idle /\ colors = Idle
    /\ perm = Idle /\ perms_tested = Idle /\ iso_found = Idle /\ iso_perm = Idle
    /\ tree_ok = Idle /\ t_root = Idle /\ t_dist = Idle /\ t_queue = Idle /\ height = Idle
    /\ sel = Idle /\ trav_at = Idle /\ bfs_order = Idle /\ dfs_order = Idle
    /\ fw_path = Idle
    /\ matrix = Idle /\ graph = Idle

\* a step of the programs in own leaves the graph and every other program's
\* variables as they are
Frame(own) ==
    /\ UNCHANGED graphVars
    /\ IF "conv" \in own THEN TRUE ELSE UNCHANGED convVars
    /\ IF "dijkstra" \in own THEN TRUE ELSE UNCHANGED dijkstraVars
    /\ IF "path" \in own THEN TRUE ELSE UNCHANGED pathVars
    /\ IF "floyd" \in own THEN TRUE ELSE UNCHANGED floydVars
    /\ IF "reach" \in own THEN TRUE ELSE UNCHANGED reachVars
    /\ IF "flow" \in own THEN TRUE ELSE UNCHANGED flowVars
    /\ IF "prim" \in own THEN TRUE ELSE UNCHANGED primVars
    /\ IF "color" \in own THEN TRUE ELSE UNCHANGED colorVars
    /\ IF "iso" \in own THEN TRUE ELSE UNCHANGED isoVars
    /\ IF "tree" \in own THEN TRUE ELSE UNCHANGED treeVars
    /\ IF "main" \in own THEN TRUE ELSE UNCHANGED mainVars
    /\ IF "file" \in own THEN TRUE ELSE UNCHANGED fileVars

\* ------------------------------------------------------ distances, heap
\* math.inf and the finite values of a distance array
INF == [inf |-> TRUE, val |-> 0]
Fin(x) == [inf |-> FALSE, val |-> x]

\* a < b on distances
Less(a, b) == ~a.inf /\ (b.inf \/ a.val < b.val)

\* Python's None in a predecessor or next-hop table
NoneV == -1

\* (d1, v1) < (d2, v2) on the tuples of the heap
TupleLess(a, b) == a[1] < b[1] \/ (a[1] = b[1] /\ a[2] < b[2])

\* heapq.heappush: the heap is kept as the sequence heappop would yield
HeapPush(h, e) ==
    LET k == Cardinality({i \in 1 .. Len(h) : ~TupleLess(e, h[i])})
    IN SubSeq(h, 1, k) \o <<e>> \o SubSeq(h, k + 1, Len(h))

\* weight matrices on n vertices with zero diagonal, at most maxe edges,
\* weights in vals
WeightMatrices(n, maxe, vals) ==
    {[i \in Idx(n) |-> [j \in Idx(n) |->
            IF <<i, j>> \in DOMAIN f THEN f[<<i, j>>] ELSE 0]] :
        f \in UNION {[S -> vals] :
                S \in {T \in SUBSET OffDiag(n) : Cardinality(T) <= maxe}}}

\* ---------------------------------------------------------------- Dijkstra
\* an entry popped with at least the known distance is skipped
StaleOrEqual(cur_dist, dv) == ~Less(Fin(cur_dist), dv)

\* line 81: cur_dist > dist[v], the entry is out of date
Stale(cur_dist, dv) == Less(dv, Fin(cur_dist))

\* lines 84-89 for one u: relax the edge v -> u
RelaxEdge(W, st, v, u) ==
    LET new_dist == st.dist[v].val + W[v][u]
    IN IF W[v][u] > 0 /\ Less(Fin(new_dist), st.dist[u])
       THEN [dist |-> [st.dist EXCEPT ![u] = Fin(new_dist)],
             prev |-> [st.prev EXCEPT ![u] = v],
             heap |-> HeapPush(st.heap, <<new_dist, u>>)]
       ELSE st

\* the loop over adj_list[v], which lists the neighbours in ascending order
RECURSIVE RelaxFrom(_, _, _, _)
RelaxFrom(W, st, v, u) ==
    IF u >= Len0(W) THEN st
    ELSE RelaxFrom(W, RelaxEdge(W, st, v, u), v, u + 1)

\* lines 71-76
DijkstraStart(s0) ==
    /\ start' = s0
    /\ dist' = [v \in DOMAIN w |-> IF v = s0 THEN Fin(0) ELSE INF]
    /\ prev' = [v \in DOMAIN w |-> NoneV]
    /\ heap' = << <<0, s0>> >>

\* one iteration of the while loop, lines 78-89
DijkstraPop ==
    LET cur_dist == Head(heap)[1]
        v == Head(heap)[2]
        st == RelaxFrom(w, [dist |-> dist, prev |-> prev, heap |-> Tail(heap)],
                        v, 0)
    IN /\ heap # <<>>
       /\ IF Stale(cur_dist, dist[v])
          THEN heap' = Tail(heap) /\ UNCHANGED <<dist, prev>>
          ELSE dist' = st.dist /\ prev' = st.prev /\ heap' = st.heap
       /\ UNCHANGED start

\* ---------------------------------------------------------- Floyd-Warshall
\* only a positive entry counts as an edge
FloydInitDistPositive(W) ==
    [i \in DOMAIN W |-> [j \in DOMAIN W |->
        IF i = j THEN Fin(0) ELSE IF W[i][j] > 0 THEN Fin(W[i][j]) ELSE INF]]

\* lines 71-81
FloydInitDist(W) ==
    [i \in DOMAIN W |-> [j \in DOMAIN W |->
        IF i = j THEN Fin(0) ELSE IF W[i][j] # 0 THEN Fin(W[i][j]) ELSE INF]]

FloydInitNxt(W) ==
    [i \in DOMAIN W |-> [j \in DOMAIN W |->
        IF i # j /\ W[i][j] # 0 THEN j ELSE NoneV]]

\* the next hop is taken from k, not from i
FloydCellNextFromK(st, k, i, j) ==
    IF st.d[k][j].inf THEN st
    ELSE LET new_dist == st.d[i][k].val + st.d[k][j].val
         IN IF Less(Fin(new_dist), st.d[i][j])
            THEN [d |-> [st.d EXCEPT ![i][j] = Fin(new_dist)],
                  nx |-> [st.nx EXCEPT ![i][j] = st.nx[k][j]]]
            ELSE st

\* lines 89-94 for one j
FloydCell(st, k, i, j) ==
    IF st.d[k][j].inf THEN st
    ELSE LET new_dist == st.d[i][k].val + st.d[k][j].val
         IN IF Less(Fin(new_dist), st.d[i][j])
            THEN [d |-> [st.d EXCEPT ![i][j] = Fin(new_dist)],
                  nx |-> [st.nx EXCEPT ![i][j] = st.nx[i][k]]]
            ELSE st

RECURSIVE FloydRow(_, _, _, _)
FloydRow(st, k, i, j) ==
    IF j >= Len0(st.d) THEN st
    ELSE FloydRow(FloydCell(st, k, i, j), k, i, j + 1)

\* lines 85-94: the rows of one k, updated in place
RECURSIVE FloydRows(_, _, _)
FloydRows(st, k, i) ==
    IF i >= Len0(st.d) THEN st
    ELSE IF st.d[i][k].inf THEN FloydRows(st, k, i + 1)
         ELSE FloydRows(FloydRow(st, k, i, 0), k, i + 1)

\* only the first vertex is inspected
NegativeDiagonalFirst(d) == Less(d[0][0], Fin(0))

\* lines 97-102
NegativeDiagonal(d) == \E i \in DOMAIN d : Less(d[i][i], Fin(0))

\* ------------------------------------------- adjacency -> incidence matrix
\* the edge Graph.edges appends when its double loop is at cell (i, j);
\* only arcs with i < j are kept
EdgeAtUpperOnly(a, i, j) ==
    IF a[i][j] = 1 /\ i < j
    THEN IF a[j][i] = 1 THEN << <<"undirected", i, j>> >>
                        ELSE << <<"directed", i, j>> >>
    ELSE <<>>

\* the edge Graph.edges appends when its double loop is at cell (i, j)
EdgeAt(a, i, j) ==
    IF a[i][j] = 1
    THEN IF i = j THEN <<>>
         ELSE IF a[j][i] = 1
              THEN (IF j > i THEN << <<"undirected", i, j>> >> ELSE <<>>)
              ELSE << <<"directed", i, j>> >>
    ELSE <<>>

RECURSIVE GraphEdgesFrom(_, _, _)
GraphEdgesFrom(a, n, p) ==
    IF p >= n * n THEN <<>>
    ELSE EdgeAt(a, p \div n, p % n) \o GraphEdgesFrom(a, n, p + 1)

\* Graph.edges: the cells in row-major order
GraphEdges(a) == GraphEdgesFrom(a, Len0(a), 0)

\* the value incidence_matrix leaves in row r of the column of edge e
IncCell(e, r) ==
    IF e[1] = "undirected"
    THEN (IF r = e[2] \/ r = e[3] THEN 1 ELSE 0)
    ELSE (IF r = e[3] THEN 1 ELSE IF r = e[2] THEN -1 ELSE 0)

\* Graph.incidence_matrix: n rows, one column per edge
IncidenceMatrixOf(a, es) ==
    [r \in Idx(Len0(a)) |-> [k \in Idx(Len(es)) |-> IncCell(es[k + 1], r)]]

\* ------------------------------------------- incidence -> adjacency matrix
ColPos(m, e) == {v \in DOMAIN m : m[v][e] = 1}
ColNeg(m, e) == {v \in DOMAIN m : m[v][e] = -1}

\* two +1 entries are enough, the -1 entries are not counted
ColumnOkTwoPos(m, e) ==
    \/ Cardinality(ColPos(m, e)) = 2
    \/ Cardinality(ColPos(m, e)) = 1 /\ Cardinality(ColNeg(m, e)) = 1

\* the shape test of IncidenceGraph.edges (and of from_file) for column e
ColumnOk(m, e) ==
    \/ Cardinality(ColPos(m, e)) = 2 /\ Cardinality(ColNeg(m, e)) = 0
    \/ Cardinality(ColPos(m, e)) = 1 /\ Cardinality(ColNeg(m, e)) = 1

\* the edge IncidenceGraph.edges reads from a well-formed column e
ColumnEdge(m, e) ==
    IF Cardinality(ColPos(m, e)) = 2
    THEN <<"undirected", SortedSeq(ColPos(m, e))[1], SortedSeq(ColPos(m, e))[2]>>
    ELSE <<"directed", SortedSeq(ColNeg(m, e))[1], SortedSeq(ColPos(m, e))[1]>>

\* IncidenceGraph.m = len(incidence_matrix[0])
IncCols(m) == Len0(m[0])

IncGraphEdges(m) == [k \in 1 .. IncCols(m) |-> ColumnEdge(m, k - 1)]

IncGraphOk(m) == \A e \in Idx(IncCols(m)) : ColumnOk(m, e)

\* one iteration of the loop of to_adjacency_matrix
SetEdge(a, e) ==
    IF e[1] = "undirected"
    THEN [[a EXCEPT ![e[2]][e[3]] = 1] EXCEPT ![e[3]][e[2]] = 1]
    ELSE [a EXCEPT ![e[2]][e[3]] = 1]

RECURSIVE SetEdges(_, _, _)
SetEdges(a, es, k) ==
    IF k > Len(es) THEN a ELSE SetEdges(SetEdge(a, es[k]), es, k + 1)

\* IncidenceGraph.to_adjacency_matrix
ToAdjacencyMatrix(m) ==
    SetEdges([i \in DOMAIN m |-> [j \in DOMAIN m |-> 0]], IncGraphEdges(m), 1)

\* ------------------------------------------------ SpecConv: the round trip
ConvInit ==
    /\ pc = "conv_start"
    /\ \E n \in 1 .. ConvMaxN : adj \in LoopFreeMatrices(n, {0, 1})
    /\ w = Idle /\ cap = Idle /\ other = Idle
    /\ WorkIdle

\* Graph.incidence_matrix()
IncidenceMatrix ==
    /\ pc = "conv_start"
    /\ edges_list' = GraphEdges(adj)
    /\ inc' = IncidenceMatrixOf(adj, GraphEdges(adj))
    /\ pc' = "conv_inc"
    /\ UNCHANGED adj_back /\ Frame({"conv"})

\* IncidenceGraph(inc).to_adjacency_matrix()
ToAdjacency ==
    /\ pc = "conv_inc"
    /\ IncGraphOk(inc)
    /\ adj_back' = ToAdjacencyMatrix(inc)
    /\ pc' = "conv_done"
    /\ UNCHANGED <<inc, edges_list>> /\ Frame({"conv"})

ConvNext == IncidenceMatrix \/ ToAdjacency

SpecConv == ConvInit /\ [][ConvNext]_vars

\* C1: for every valid adjacency matrix (undirected pairs, one-way arcs in
\* either index direction, no edges at all) the conversion to an incidence
\* matrix and back ends normally with a matrix equal to the original.
C1_RoundTrip ==
    /\ pc = "conv_inc" => IncGraphOk(inc)
    /\ pc = "conv_done" => adj_back = adj

\* a round trip of a graph that has an arc from a higher to a lower index
\* beside an undirected edge has completed
C1_Witness ==
    /\ pc = "conv_done"
    /\ \E i, j \in DOMAIN adj : i > j /\ adj[i][j] = 1 /\ adj[j][i] = 0
    /\ \E i, j \in DOMAIN adj : adj[i][j] = 1 /\ adj[j][i] = 1
    /\ adj_back = adj

\* ------------------------- SpecSP: Floyd-Warshall, then Dijkstra, on one w
\* reconstruct_path, lines 96-101: the walk from cur back along prev
RECURSIVE WalkBack(_, _, _, _)
WalkBack(pr, s0, cur, acc) ==
    IF cur = NoneV THEN acc
    ELSE IF cur = s0 THEN Append(acc, cur)
    ELSE WalkBack(pr, s0, pr[cur], Append(acc, cur))

\* list.reverse()
Reverse(q) == [k \in 1 .. Len(q) |-> q[Len(q) + 1 - k]]

\* a walk that did not end at the start is returned as it is
UncheckedPath(q, s0) == q

\* lines 104-106
CheckedPath(q, s0) == IF q = <<>> \/ q[1] # s0 THEN <<>> ELSE q

\* reconstruct_path(prev, start, end)
ReconstructPathOf(pr, s0, e) == CheckedPath(Reverse(WalkBack(pr, s0, e, <<>>)), s0)

\* the path 1 - 2 - 3 with weights 2 and 3
WeightedPath123 ==
    [i \in Idx(3) |-> [j \in Idx(3) |->
        IF {i, j} = {0, 1} THEN 2 ELSE IF {i, j} = {1, 2} THEN 3 ELSE 0]]

SpInit ==
    /\ pc = "fw_start"
    /\ \/ \E n \in 1 .. SpMaxN : w \in WeightMatrices(n, SpMaxEdges, 1 .. SpMaxW)
       \/ w = WeightedPath123
    /\ adj = Idle /\ cap = Idle /\ other = Idle
    /\ WorkIdle

\* floyd_warshall(): the initialisation
FloydInit ==
    /\ pc = "fw_start"
    /\ fw_dist' = FloydInitDist(w)
    /\ nxt' = FloydInitNxt(w)
    /\ fw_k' = 0
    /\ pc' = "fw_run"
    /\ Frame({"floyd"})

\* floyd_warshall(): one k of the triple loop
FloydStep ==
    /\ pc = "fw_run"
    /\ fw_k < Len0(w)
    /\ LET st == FloydRows([d |-> fw_dist, nx |-> nxt], fw_k, 0)
       IN fw_dist' = st.d /\ nxt' = st.nx
    /\ fw_k' = fw_k + 1
    /\ pc' = "fw_run"
    /\ Frame({"floyd"})

\* floyd_warshall(): the negative-cycle test, then the return
FloydReturn ==
    /\ pc = "fw_run"
    /\ fw_k = Len0(w)
    /\ pc' = IF NegativeDiagonal(fw_dist) THEN "fw_error" ELSE "fw_done"
    /\ UNCHANGED floydVars
    /\ Frame({"floyd"})

\* dijkstra(start) on the same matrix
DijkstraCall ==
    /\ pc = "fw_done"
    /\ \E s0 \in DOMAIN w : DijkstraStart(s0)
    /\ pc' = "dij_run"
    /\ Frame({"dijkstra"})

DijkstraLoop ==
    /\ pc = "dij_run"
    /\ DijkstraPop
    /\ pc' = "dij_run"
    /\ Frame({"dijkstra"})

DijkstraReturn ==
    /\ pc = "dij_run"
    /\ heap = <<>>
    /\ pc' = "dij_done"
    /\ UNCHANGED dijkstraVars
    /\ Frame({"dijkstra"})

\* reconstruct_path(prev, start, end) on what dijkstra returned
ReconstructPath ==
    /\ pc = "dij_done"
    /\ \E e \in DOMAIN w :
          /\ target' = e
          /\ sp_path' = ReconstructPathOf(prev, start, e)
    /\ pc' = "path_done"
    /\ Frame({"path"})

SpNext ==
    \/ FloydInit \/ FloydStep \/ FloydReturn
    \/ DijkstraCall \/ DijkstraLoop \/ DijkstraReturn
    \/ ReconstructPath

SpecSP == SpInit /\ [][SpNext]_vars

\* C2: on a non-negative weight matrix, the distance vector dijkstra(s)
\* returns equals row s of the matrix floyd_warshall() returns, the
\* unreachable entries included.
C2_DijkstraEqualsFloydRow ==
    pc = "dij_done" => \A v \in DOMAIN w : dist[v] = fw_dist[start][v]

\* both have returned on a graph where a path through a third vertex beats
\* the direct edge from the start
C2_Witness ==
    /\ pc = "dij_done"
    /\ \E v \in DOMAIN w :
          /\ w[start][v] > 0 /\ ~dist[v].inf /\ dist[v].val < w[start][v]
          /\ prev[v] # start
          /\ fw_dist[start][v] = dist[v]

\* ------------------------------------------------------------ reachability
\* every n x n 0/1 matrix, the diagonal included (from_file tests no diagonal)
BinaryMatrices(n) == [Idx(n) -> [Idx(n) -> {0, 1}]]

\* the vertices with an edge into v
NeighborsInto(a, v) == SortedSeq({u \in DOMAIN a : a[u][v] = 1})

\* Graph.neighbors: the vertices v has an edge to, ascending
Neighbors(a, v) == SortedSeq({u \in DOMAIN a[v] : a[v][u] = 1})

\* lines 60-63: the neighbours ns[k..] of the vertex just taken from the queue
RECURSIVE BfsVisit(_, _, _)
BfsVisit(st, ns, k) ==
    IF k > Len(ns) THEN st
    ELSE IF st.reachable[ns[k]] THEN BfsVisit(st, ns, k + 1)
         ELSE BfsVisit([reachable |-> [st.reachable EXCEPT ![ns[k]] = TRUE],
                        queue |-> Append(st.queue, ns[k])], ns, k + 1)

\* lines 58-63: the while loop
RECURSIVE BfsLoop(_, _)
BfsLoop(a, st) ==
    IF st.queue = <<>> THEN st.reachable
    ELSE BfsLoop(a, BfsVisit([reachable |-> st.reachable, queue |-> Tail(st.queue)],
                             Neighbors(a, Head(st.queue)), 1))

\* Graph.bfs_reachable
BfsReachable(a, s0) ==
    BfsLoop(a, [reachable |-> [u \in DOMAIN a |-> u = s0], queue |-> <<s0>>])

ReachInit ==
    /\ pc = "reach_start"
    /\ \E n \in 1 .. ReachMaxN : adj \in BinaryMatrices(n)
    /\ w = Idle /\ cap = Idle /\ other = Idle
    /\ WorkIdle

\* reachability_matrix(): line 69
ReachAlloc ==
    /\ pc = "reach_start"
    /\ reach' = [v \in DOMAIN adj |-> [u \in DOMAIN adj |-> 0]]
    /\ reach_v' = 0
    /\ pc' = "reach_run"
    /\ Frame({"reach"})

\* reachability_matrix(): one v of the loop, lines 71-74
ReachRow ==
    /\ pc = "reach_run"
    /\ reach_v < Len0(adj)
    /\ reach' = [reach EXCEPT ![reach_v] =
                    [u \in DOMAIN adj |->
                        IF BfsReachable(adj, reach_v)[u] THEN 1 ELSE 0]]
    /\ reach_v' = reach_v + 1
    /\ pc' = "reach_run"
    /\ Frame({"reach"})

ReachReturn ==
    /\ pc = "reach_run"
    /\ reach_v = Len0(adj)
    /\ pc' = "reach_done"
    /\ UNCHANGED reachVars
    /\ Frame({"reach"})

ReachNext == ReachAlloc \/ ReachRow \/ ReachReturn

SpecReach == ReachInit /\ [][ReachNext]_vars

\* one more edge appended to every path of R
Extend(a, R) ==
    R \cup {p \in (DOMAIN a) \X (DOMAIN a) :
                \E y \in DOMAIN a : <<p[1], y>> \in R /\ a[y][p[2]] = 1}

RECURSIVE PathsWithin(_, _)
\* the pairs (v, u) joined by a directed path of at most k edges
PathsWithin(a, k) ==
    IF k = 0 THEN {<<v, v>> : v \in DOMAIN a}
    ELSE Extend(a, PathsWithin(a, k - 1))

\* C3: reachability_matrix() returns the reflexive-transitive closure:
\* reach[v][u] = 1 iff a directed path of length >= 0 leads from v to u; so
\* reach[v][v] = 1, and reach[v][u] = 1 and reach[u][x] = 1 give reach[v][x] = 1.
C3_ReachIsClosure ==
    pc = "reach_done" =>
        /\ \A v, u \in DOMAIN adj :
              reach[v][u] = (IF <<v, u>> \in PathsWithin(adj, Len0(adj)) THEN 1 ELSE 0)
        /\ \A v \in DOMAIN adj : reach[v][v] = 1
        /\ \A v, u, x \in DOMAIN adj :
              reach[v][u] = 1 /\ reach[u][x] = 1 => reach[v][x] = 1

\* the matrix is returned for a graph with a vertex reached only through
\* another one, a vertex without a self-loop and an unreachable pair
C3_Witness ==
    /\ pc = "reach_done"
    /\ \E v, u \in DOMAIN adj : v # u /\ adj[v][u] = 0 /\ reach[v][u] = 1
    /\ \E v \in DOMAIN adj : adj[v][v] = 0 /\ reach[v][v] = 1
    /\ \E v, u \in DOMAIN adj : reach[v][u] = 0

\* ----------------------------------------------------------------- max-flow
\* an edge with no residual capacity left is followed as well
ResidualVisitZero(res, t0, st, v, u) ==
    IF ~st.found /\ ~st.visited[u] /\ res[v][u] >= 0
    THEN [parent |-> [st.parent EXCEPT ![u] = v],
          visited |-> [st.visited EXCEPT ![u] = TRUE],
          queue |-> IF u = t0 THEN st.queue ELSE Append(st.queue, u),
          found |-> u = t0]
    ELSE st

\* lines 87-93 for one u; the scan of a row stops once t is found
ResidualVisit(res, t0, st, v, u) ==
    IF ~st.found /\ ~st.visited[u] /\ res[v][u] > 0
    THEN [parent |-> [st.parent EXCEPT ![u] = v],
          visited |-> [st.visited EXCEPT ![u] = TRUE],
          queue |-> IF u = t0 THEN st.queue ELSE Append(st.queue, u),
          found |-> u = t0]
    ELSE st

RECURSIVE ResidualScan(_, _, _, _, _)
ResidualScan(res, t0, st, v, u) ==
    IF u >= Len0(res) THEN st
    ELSE ResidualScan(res, t0, ResidualVisit(res, t0, st, v, u), v, u + 1)

\* lines 85-95: the while loop and the two returns
RECURSIVE ResidualLoop(_, _, _)
ResidualLoop(res, t0, st) ==
    IF st.found THEN [found |-> TRUE, parent |-> st.parent]
    ELSE IF st.queue = <<>> THEN [found |-> st.visited[t0], parent |-> st.parent]
    ELSE ResidualLoop(res, t0,
            ResidualScan(res, t0, [st EXCEPT !.queue = Tail(st.queue)],
                         Head(st.queue), 0))

\* FlowNetwork._bfs_on_residual
BfsOnResidual(res, s0, t0) ==
    ResidualLoop(res, t0, [parent |-> [u \in DOMAIN res |-> NoneV],
                           visited |-> [u \in DOMAIN res |-> u = s0],
                           queue |-> <<s0>>,
                           found |-> FALSE])

\* lines 120-127: the parents from v back to s, reversed
RECURSIVE PathTo(_, _, _)
PathTo(par, s0, v) ==
    IF v = NoneV THEN <<>>
    ELSE IF v = s0 THEN <<v>>
    ELSE Append(PathTo(par, s0, par[v]), v)

\* the largest residual capacity along the path
BottleneckMax(res, pth) ==
    IF Len(pth) < 2 THEN INF
    ELSE Fin(CHOOSE c \in {res[pth[i]][pth[i + 1]] : i \in 1 .. Len(pth) - 1} :
                \A i \in 1 .. Len(pth) - 1 : c >= res[pth[i]][pth[i + 1]])

\* lines 130-134: float("inf") when the path has no edge
Bottleneck(res, pth) ==
    IF Len(pth) < 2 THEN INF
    ELSE Fin(CHOOSE c \in {res[pth[i]][pth[i + 1]] : i \in 1 .. Len(pth) - 1} :
                \A i \in 1 .. Len(pth) - 1 : c <= res[pth[i]][pth[i + 1]])

\* max_flow = bottleneck
SetFlow(mf, b) == b

\* line 144: max_flow += bottleneck
AddFlow(mf, b) == mf + b

\* the reverse edge is left as it is
UpdateEdgeForward(res, u, v, b) == [res EXCEPT ![u][v] = @ - b]

\* lines 150-151 for the edge u -> v
UpdateEdge(res, u, v, b) ==
    LET r1 == [res EXCEPT ![u][v] = @ - b]
    IN [r1 EXCEPT ![v][u] = @ + b]

\* every small network, and a network of six vertices whose shortest path
\* 0-1-2-5 has to be undone in part along 0-3-2-1-4-5
FlowInit ==
    /\ pc = "flow_start"
    /\ \/ \E n \in 1 .. FlowMaxN :
              cap \in WeightMatrices(n, FlowMaxEdges, 1 .. FlowMaxCap)
       \/ cap = [i \in Idx(6) |-> [j \in Idx(6) |->
                    IF <<i, j>> \in {<<0, 1>>, <<1, 2>>, <<2, 5>>, <<0, 3>>,
                                     <<3, 2>>, <<1, 4>>, <<4, 5>>}
                    THEN 1 ELSE 0]]
    /\ adj = Idle /\ w = Idle /\ other = Idle
    /\ WorkIdle

\* the residual matrix of an earlier call is taken up again
MaxFlowStartAliased(s0, t0) ==
    /\ src' = s0 /\ snk' = t0
    /\ residual' = IF residual = Idle THEN cap ELSE residual
    /\ max_flow' = 0
    /\ augmenting_paths' = <<>>
    /\ pc' = "flow_loop"
    /\ UNCHANGED <<path, bottleneck, edge_i, returned>>

\* lines 110-112
MaxFlowStart(s0, t0) ==
    /\ src' = s0 /\ snk' = t0
    /\ residual' = cap
    /\ max_flow' = 0
    /\ augmenting_paths' = <<>>
    /\ pc' = "flow_loop"
    /\ UNCHANGED <<path, bottleneck, edge_i, returned>>

\* max_flow_ford_fulkerson(s, t), and the same call once more on the same
\* network after it has returned
MaxFlowCall ==
    /\ \/ pc = "flow_start" /\ \E s0, t0 \in DOMAIN cap : MaxFlowStart(s0, t0)
       \/ pc = "flow_done" /\ Len(returned) = 1 /\ MaxFlowStart(src, snk)
    /\ Frame({"flow"})

\* lines 115-144: search, path, bottleneck, record, add
FlowAugment ==
    /\ pc = "flow_loop"
    /\ LET r == BfsOnResidual(residual, src, snk)
           pth == PathTo(r.parent, src, snk)
           b == Bottleneck(residual, pth)
       IN IF ~r.found \/ b.inf
          THEN /\ pc' = "flow_done"
               /\ returned' = Append(returned, <<max_flow, augmenting_paths>>)
               /\ UNCHANGED <<max_flow, augmenting_paths, path, bottleneck, edge_i>>
          ELSE /\ path' = pth
               /\ bottleneck' = b.val
               /\ augmenting_paths' = Append(augmenting_paths, <<pth, b.val>>)
               /\ max_flow' = AddFlow(max_flow, b.val)
               /\ edge_i' = 0
               /\ pc' = "flow_update"
               /\ UNCHANGED returned
    /\ UNCHANGED <<src, snk, residual>>
    /\ Frame({"flow"})

\* the update loop stays at its edge and leaves the residual network alone
FlowUpdateStuck ==
    /\ pc = "flow_update"
    /\ UNCHANGED <<pc, flowVars>>
    /\ Frame({"flow"})

\* lines 147-151: one edge of the path
FlowUpdate ==
    /\ pc = "flow_update"
    /\ residual' = UpdateEdge(residual, path[edge_i + 1], path[edge_i + 2], bottleneck)
    /\ edge_i' = edge_i + 1
    /\ pc' = IF edge_i + 1 < Len(path) - 1 THEN "flow_update" ELSE "flow_loop"
    /\ UNCHANGED <<src, snk, max_flow, augmenting_paths, path, bottleneck, returned>>
    /\ Frame({"flow"})

FlowNext == MaxFlowCall \/ FlowAugment \/ FlowUpdate

SpecFlow == FlowInit /\ [][FlowNext]_vars

\* a call that has started runs on: nothing but the loop itself can hold
\* back its next step.  The last conjunct is weak fairness of FlowAugment
\* with its enabling condition written out: the step is possible exactly
\* when pc = "flow_loop", and it always leaves that position.
SpecFlowFair ==
    /\ FlowInit /\ [][FlowNext]_vars
    /\ WF_vars(FlowUpdate)
    /\ ([]<>(pc # "flow_loop") \/ []<><<FlowAugment>>_vars)

FlowRunning == pc \in {"flow_loop", "flow_update", "flow_done"}

\* C4: every residual[u][v] is >= 0 in every state of max_flow_ford_fulkerson,
\* between the edge updates of one augmentation too.
C4_ResidualNonNegative ==
    FlowRunning => \A u, v \in DOMAIN residual : residual[u][v] >= 0

\* half-way through an augmentation along a two-edge path whose second edge
\* is the bottleneck: one edge updated, one still to update
C4_Witness ==
    /\ pc = "flow_update" /\ edge_i = 1 /\ Len(path) = 3
    /\ cap[path[1]][path[2]] > bottleneck
    /\ residual[path[1]][path[2]] = cap[path[1]][path[2]] - bottleneck
    /\ residual[path[2]][path[3]] = bottleneck

RECURSIVE SumAmounts(_)
SumAmounts(ps) == IF ps = <<>> THEN 0 ELSE Head(ps)[2] + SumAmounts(Tail(ps))

RECURSIVE SumRow(_, _)
SumRow(row, n) == IF n = 0 THEN 0 ELSE row[n - 1] + SumRow(row, n - 1)

\* C5: after every augmentation max_flow equals the sum of the amounts
\* recorded in augmenting_paths, and the value returned is at most the total
\* capacity out of the source.
C5_FlowIsSumOfAmounts ==
    /\ FlowRunning => max_flow = SumAmounts(augmenting_paths)
    /\ pc = "flow_done" => max_flow <= SumRow(cap[src], Len0(cap))

\* the function has returned after two augmentations
C5_Witness ==
    /\ pc = "flow_done"
    /\ Len(augmenting_paths) = 2
    /\ max_flow = augmenting_paths[1][2] + augmenting_paths[2][2]
    /\ max_flow > 0

\* --------------------------------------------------------------------- Prim
UpperPairs(n) == {p \in Idx(n) \X Idx(n) : p[1] < p[2]}

\* symmetric weight matrices on n vertices with zero diagonal, at most maxe
\* edges, weights in vals
SymWeightMatrices(n, maxe, vals) ==
    {[i \in Idx(n) |-> [j \in Idx(n) |->
            IF <<i, j>> \in DOMAIN f THEN f[<<i, j>>]
            ELSE IF <<j, i>> \in DOMAIN f THEN f[<<j, i>>] ELSE 0]] :
        f \in UNION {[S -> vals] :
                S \in {T \in SUBSET UpperPairs(n) : Cardinality(T) <= maxe}}}

\* the -1 of "no vertex chosen" and "no parent"
NoVertex == -1

\* the first vertex outside the tree that an edge reaches, cheapest or not
PrimPickFirst(inm, me, v, best, u) ==
    LET open == {x \in DOMAIN inm : x >= v /\ ~inm[x] /\ Less(me[x], best)}
    IN IF open = {} THEN u ELSE CHOOSE x \in open : \A y \in open : x <= y

\* lines 83-86: the scan for the cheapest vertex outside the tree
RECURSIVE PrimPick(_, _, _, _, _)
PrimPick(inm, me, v, best, u) ==
    IF v >= Len0(inm) THEN u
    ELSE IF ~inm[v] /\ Less(me[v], best) THEN PrimPick(inm, me, v + 1, me[v], v)
         ELSE PrimPick(inm, me, v + 1, best, u)

\* the vertex may already be in the tree
RelaxesInTree(wt, inv, mev) == wt > 0 /\ Less(Fin(wt), mev)

\* a zero entry counts as an edge
RelaxesZero(wt, inv, mev) == wt >= 0 /\ ~inv /\ Less(Fin(wt), mev)

\* line 97
Relaxes(wt, inv, mev) == wt > 0 /\ ~inv /\ Less(Fin(wt), mev)

\* lines 95-99: min_edge and parent after u has joined the tree
PrimRelax(W, inm, me, par, u) ==
    [me |-> [v \in DOMAIN W |->
                IF Relaxes(W[u][v], inm[v], me[v]) THEN Fin(W[u][v]) ELSE me[v]],
     par |-> [v \in DOMAIN W |->
                IF Relaxes(W[u][v], inm[v], me[v]) THEN u ELSE par[v]]]

\* lines 106-115: the edges parent[v] -> v for v = 1..n-1
PrimEdges(W, par) == [k \in 1 .. Len0(W) - 1 |-> <<par[k], k, W[par[k]][k]>>]

RECURSIVE SumWeights(_)
SumWeights(es) == IF es = <<>> THEN 0 ELSE Head(es)[3] + SumWeights(Tail(es))

PrimInit ==
    /\ pc = "prim_start"
    /\ \E n \in 0 .. PrimMaxN : w \in SymWeightMatrices(n, PrimMaxEdges, 1 .. PrimMaxW)
    /\ adj = Idle /\ cap = Idle /\ other = Idle
    /\ WorkIdle

\* prim_mst(): lines 65-77
PrimCall ==
    /\ pc = "prim_start"
    /\ IF Len0(w) = 0
       THEN /\ pc' = "prim_none"
            /\ UNCHANGED primVars
       ELSE IF Len0(w) = 1
       THEN /\ pc' = "prim_done"
            /\ mst_edges' = <<>> /\ total_weight' = 0
            /\ UNCHANGED <<in_mst, min_edge, parent, prim_iter>>
       ELSE /\ pc' = "prim_run"
            /\ in_mst' = [v \in DOMAIN w |-> FALSE]
            /\ min_edge' = [v \in DOMAIN w |-> IF v = 0 THEN Fin(0) ELSE INF]
            /\ parent' = [v \in DOMAIN w |-> NoVertex]
            /\ prim_iter' = 0
            /\ UNCHANGED <<mst_edges, total_weight>>
    /\ Frame({"prim"})

\* prim_mst(): one iteration of the main loop, lines 79-99
PrimIter ==
    /\ pc = "prim_run"
    /\ prim_iter < Len0(w)
    /\ LET u == PrimPick(in_mst, min_edge, 0, INF, NoVertex)
           inm == [in_mst EXCEPT ![u] = TRUE]
           r == PrimRelax(w, inm, min_edge, parent, u)
       IN IF u = NoVertex
          THEN /\ pc' = "prim_none"
               /\ UNCHANGED primVars
          ELSE /\ pc' = "prim_run"
               /\ in_mst' = inm
               /\ min_edge' = r.me
               /\ parent' = r.par
               /\ prim_iter' = prim_iter + 1
               /\ UNCHANGED <<mst_edges, total_weight>>
    /\ Frame({"prim"})

\* prim_mst(): lines 101-117
PrimReturn ==
    /\ pc = "prim_run"
    /\ prim_iter = Len0(w)
    /\ IF (\E v \in DOMAIN w : ~in_mst[v])
          \/ (\E v \in 1 .. Len0(w) - 1 : parent[v] = NoVertex)
       THEN /\ pc' = "prim_none"
            /\ UNCHANGED <<mst_edges, total_weight>>
       ELSE /\ pc' = "prim_done"
            /\ mst_edges' = PrimEdges(w, parent)
            /\ total_weight' = SumWeights(PrimEdges(w, parent))
    /\ UNCHANGED <<in_mst, min_edge, parent, prim_iter>>
    /\ Frame({"prim"})

PrimNext == PrimCall \/ PrimIter \/ PrimReturn

SpecPrim == PrimInit /\ [][PrimNext]_vars

\* the graph of the non-zero entries of a weight matrix
EdgeMatrix(W) == [i \in DOMAIN W |-> [j \in DOMAIN W |-> IF W[i][j] > 0 THEN 1 ELSE 0]]

\* every vertex is joined to every other by a path
Connected(W) ==
    LET R == PathsWithin(EdgeMatrix(W), Len0(W))
    IN \A u, v \in DOMAIN W : <<u, v>> \in R

\* the 0/1 matrix of an undirected edge list
EdgeListMatrix(n, es) ==
    [i \in Idx(n) |-> [j \in Idx(n) |->
        IF \E k \in 1 .. Len(es) : {es[k][1], es[k][2]} = {i, j} /\ i # j
        THEN 1 ELSE 0]]

\* a set of undirected edges has no cycle iff stripping leaves empties it
RECURSIVE Acyclic(_)
Acyclic(E) ==
    IF E = {} THEN TRUE
    ELSE LET leaves == {e \in E : \E x \in e : \A f \in E \ {e} : x \notin f}
         IN leaves # {} /\ Acyclic(E \ leaves)

EdgeSets(es) == {{es[k][1], es[k][2]} : k \in 1 .. Len(es)}

PrimReturned == pc \in {"prim_done", "prim_none"}

\* C6: on a connected symmetric non-negative matrix with n >= 1 vertices
\* prim_mst() returns n-1 edges (u, v, wt) with wt = w[u][v] > 0 that connect
\* all vertices without a cycle, and a total equal to the sum of the wt.
C6_PrimSpanningTree ==
    (PrimReturned /\ Len0(w) >= 1 /\ Connected(w)) =>
        /\ pc = "prim_done"
        /\ Len(mst_edges) = Len0(w) - 1
        /\ \A k \in 1 .. Len(mst_edges) :
              /\ mst_edges[k][1] \in DOMAIN w /\ mst_edges[k][2] \in DOMAIN w
              /\ mst_edges[k][3] = w[mst_edges[k][1]][mst_edges[k][2]]
              /\ mst_edges[k][3] > 0
        /\ \A u, v \in DOMAIN w :
              <<u, v>> \in PathsWithin(EdgeListMatrix(Len0(w), mst_edges), Len0(w))
        /\ Cardinality(EdgeSets(mst_edges)) = Len0(w) - 1
        /\ \A e \in EdgeSets(mst_edges) : Cardinality(e) = 2
        /\ Acyclic(EdgeSets(mst_edges))
        /\ total_weight = SumWeights(mst_edges)

\* a tree is returned for a connected graph with a cycle, in which a vertex
\* is attached by a cheaper edge than the one that first reached it
C6_Witness ==
    /\ pc = "prim_done" /\ Len0(w) >= 3 /\ Connected(w)
    /\ \E v \in DOMAIN w : w[0][v] > 0 /\ parent[v] # 0 /\ w[parent[v]][v] < w[0][v]
    /\ Len(mst_edges) = Len0(w) - 1
    /\ total_weight = SumWeights(mst_edges)

\* C7: on a disconnected symmetric non-negative matrix (n >= 2) prim_mst()
\* returns (None, None), never a partial edge list or weight; and it returns
\* (None, None) only when the graph is disconnected or has no vertices.
C7_PrimNoSpanningTree ==
    /\ (PrimReturned /\ Len0(w) >= 2 /\ ~Connected(w)) => pc = "prim_none"
    /\ pc = "prim_none" => mst_edges = Idle /\ total_weight = Idle
    /\ pc = "prim_none" => (Len0(w) = 0 \/ ~Connected(w))

\* (None, None) is returned for a graph with edges, after part of it has
\* been put into the tree
C7_Witness ==
    /\ pc = "prim_none" /\ Len0(w) >= 3 /\ ~Connected(w)
    /\ \E v \in DOMAIN w : v # 0 /\ in_mst[v]
    /\ \E v \in DOMAIN w : ~in_mst[v] /\ \E u \in DOMAIN w : w[v][u] > 0
    /\ mst_edges = Idle /\ total_weight = Idle

\* ---------------------------------------------------------------- colouring
\* symmetric loop-free 0/1 matrices on n vertices
SymBinaryMatrices(n) ==
    {[i \in Idx(n) |-> [j \in Idx(n) |->
            IF <<i, j>> \in S \/ <<j, i>> \in S THEN 1 ELSE 0]] :
        S \in SUBSET UpperPairs(n)}

\* len(self.adj_list[v])
Degree(a, v) == Cardinality({u \in DOMAIN a : a[v][u] = 1})

\* line 95: sorted(range(n), key=-degree), a stable sort
RECURSIVE OrderOf(_, _)
OrderOf(a, S) ==
    IF S = {} THEN <<>>
    ELSE LET v == CHOOSE x \in S : \A y \in S :
                    \/ Degree(a, x) > Degree(a, y)
                    \/ Degree(a, x) = Degree(a, y) /\ x <= y
         IN <<v>> \o OrderOf(a, S \ {v})

\* the loop returns after its first neighbour
IsSafeColorFirstNeighbor(a, v, c, cs) ==
    Neighbors(a, v) = <<>> \/ cs[Neighbors(a, v)[1]] # c

\* the loop runs over every other vertex
IsSafeColorAllVertices(a, v, c, cs) == \A u \in DOMAIN a \ {v} : cs[u] # c

\* Graph.is_safe_color
IsSafeColor(a, v, c, cs) == \A u \in DOMAIN a : a[v][u] = 1 => cs[u] # c

RECURSIVE Backtrack(_, _, _, _, _)
RECURSIVE TryColors(_, _, _, _, _, _)
\* lines 97-100
Backtrack(a, order, k, idx, cs) ==
    IF idx = Len0(a) THEN [ok |-> TRUE, colors |-> cs]
    ELSE TryColors(a, order, k, idx, cs, 1)

\* lines 101-107: the colours c..k for the vertex order[idx]
TryColors(a, order, k, idx, cs, c) ==
    IF c > k THEN [ok |-> FALSE, colors |-> cs]
    ELSE IF IsSafeColor(a, order[idx + 1], c, cs)
         THEN LET r == Backtrack(a, order, k, idx + 1,
                                 [cs EXCEPT ![order[idx + 1]] = c])
              IN IF r.ok THEN r ELSE TryColors(a, order, k, idx, cs, c + 1)
         ELSE TryColors(a, order, k, idx, cs, c + 1)

\* Graph._color_with_k: ok = FALSE stands for None
ColorWithK(a, k) ==
    Backtrack(a, OrderOf(a, DOMAIN a), k, 0, [v \in DOMAIN a |-> 0])

ColorInit ==
    /\ pc = "color_start"
    /\ \E n \in 0 .. ColorMaxN : adj \in SymBinaryMatrices(n)
    /\ w = Idle /\ cap = Idle /\ other = Idle
    /\ WorkIdle

\* chromatic_number(): the loop starts at k = 1
ChromaticCall ==
    /\ pc = "color_start"
    /\ color_k' = 1
    /\ pc' = "color_run"
    /\ UNCHANGED <<chromatic, colors>>
    /\ Frame({"color"})

\* chromatic_number(): one k of the loop, lines 118-121, or the return of
\* line 124 when the loop has run out
ChromaticTry ==
    /\ pc = "color_run"
    /\ IF color_k > Len0(adj)
       THEN /\ chromatic' = Len0(adj)
            /\ colors' = [i \in DOMAIN adj |-> i + 1]
            /\ pc' = "color_done"
            /\ UNCHANGED color_k
       ELSE IF ColorWithK(adj, color_k).ok
       THEN /\ chromatic' = color_k
            /\ colors' = ColorWithK(adj, color_k).colors
            /\ pc' = "color_done"
            /\ UNCHANGED color_k
       ELSE /\ color_k' = color_k + 1
            /\ pc' = "color_run"
            /\ UNCHANGED <<chromatic, colors>>
    /\ Frame({"color"})

ColorNext == ChromaticCall \/ ChromaticTry

SpecColor == ColorInit /\ [][ColorNext]_vars

\* f colours the graph a properly with the colours 1..k
Proper(a, f, k) ==
    /\ \A v \in DOMAIN a : f[v] \in 1 .. k
    /\ \A u, v \in DOMAIN a : a[u][v] = 1 => f[u] # f[v]

\* C8: the (k, colors) returned by chromatic_number() is a proper colouring:
\* every colour is in 1..k and no edge joins two vertices of one colour.
C8_ColoringProper ==
    pc = "color_done" => DOMAIN colors = DOMAIN adj /\ Proper(adj, colors, chromatic)

\* a colouring is returned for a graph that needs a third colour and has
\* two non-adjacent vertices
C8_Witness ==
    /\ pc = "color_done" /\ chromatic = 3 /\ Len0(adj) = 4
    /\ \E u, v \in DOMAIN adj : u # v /\ adj[u][v] = 0 /\ colors[u] = colors[v]
    /\ Proper(adj, colors, chromatic)

Colorable(a, k) == \E f \in [DOMAIN a -> 1 .. k] : Proper(a, f, k)

IsTriangle(a) == Len0(a) = 3 /\ \A u, v \in DOMAIN a : u # v => a[u][v] = 1

IsPath4(a) ==
    /\ Len0(a) = 4
    /\ Cardinality({p \in UpperPairs(4) : a[p[1]][p[2]] = 1}) = 3
    /\ \A v \in DOMAIN a : Degree(a, v) <= 2
    /\ \A u, v \in DOMAIN a : <<u, v>> \in PathsWithin(a, 4)

\* C9: the k returned is the chromatic number: a proper k-colouring exists
\* and none with fewer colours; every k' the loop has passed admits no proper
\* k'-colouring.  A triangle yields 3 and a 4-vertex path yields 2.
C9_ChromaticExact ==
    /\ pc = "color_run" => \A k \in 1 .. color_k - 1 : ~Colorable(adj, k)
    /\ pc = "color_done" =>
          /\ Colorable(adj, chromatic)
          /\ \A k \in 0 .. chromatic - 1 : ~Colorable(adj, k)
          /\ IsTriangle(adj) => chromatic = 3
          /\ IsPath4(adj) => chromatic = 2

\* 2 is returned for a 4-vertex path, after k = 1 has failed
C9_Witness ==
    /\ pc = "color_done" /\ IsPath4(adj) /\ chromatic = 2 /\ color_k = 2
    /\ ~Colorable(adj, 1)

\* -------------------------------------------------------------- isomorphism
RECURSIVE RowSum(_, _)
RowSum(row, n) == IF n = 0 THEN 0 ELSE row[n - 1] + RowSum(row, n - 1)

\* Graph.degree_sequence, as a sequence
DegreeSequence(a) == [k \in 1 .. Len0(a) |-> RowSum(a[k - 1], Len0(a))]

\* sorted(): x put into the sorted sequence q
InsertSorted(q, x) ==
    LET k == Cardinality({i \in 1 .. Len(q) : q[i] <= x})
    IN SubSeq(q, 1, k) \o <<x>> \o SubSeq(q, k + 1, Len(q))

RECURSIVE Sorted(_)
Sorted(q) == IF q = <<>> THEN <<>> ELSE InsertSorted(Sorted(Tail(q)), Head(q))

\* the permutations of 0..n-1
Perms(n) == {q \in [Idx(n) -> Idx(n)] : {q[i] : i \in Idx(n)} = Idx(n)}

LexLess(q, r) ==
    \E i \in DOMAIN q : q[i] < r[i] /\ \A j \in DOMAIN q : j < i => q[j] = r[j]

RECURSIVE LexSorted(_)
LexSorted(S) ==
    IF S = {} THEN <<>>
    ELSE LET m == CHOOSE q \in S : \A r \in S : r = q \/ LexLess(q, r)
         IN <<m>> \o LexSorted(S \ {m})

\* itertools.permutations(range(n)): the tuples in lexicographic order,
\* for each n the two graphs can have
PermTuples == [n \in 0 .. IsoMaxN |-> LexSorted(Perms(n))]

\* the degrees are compared index by index, the permutation not applied
DegreesMatchUnpermuted(a, b, q) ==
    LET da == DegreeSequence(a)
        db == DegreeSequence(b)
    IN \A i \in DOMAIN a : da[i + 1] = db[i + 1]

\* lines 88-92
DegreesMatch(a, b, q) ==
    LET da == DegreeSequence(a)
        db == DegreeSequence(b)
    IN \A i \in DOMAIN a : da[i + 1] = db[q[i] + 1]

\* only the cells above the diagonal are compared
AdjacencyMatchesUpper(a, b, q) ==
    \A i, j \in DOMAIN a : i < j => a[i][j] = b[q[i]][q[j]]

\* lines 97-104
AdjacencyMatches(a, b, q) == \A i, j \in DOMAIN a : a[i][j] = b[q[i]][q[j]]

\* the degree sequences are not compared
DegreePruneOff(a, b) == FALSE

\* lines 78-81: the sorted degree sequences differ
DegreePrune(a, b) == Sorted(DegreeSequence(a)) # Sorted(DegreeSequence(b))

IsoInit ==
    /\ pc = "iso_start"
    /\ \E n \in 1 .. IsoMaxN : adj \in WeightMatrices(n, IsoMaxEdges, {1})
    /\ \E n \in 1 .. IsoMaxN : other \in WeightMatrices(n, IsoMaxEdges, {1})
    /\ w = Idle /\ cap = Idle
    /\ WorkIdle

\* is_isomorphic_to(other): lines 72-84
IsoCall ==
    /\ pc = "iso_start"
    /\ perms_tested' = 0
    /\ IF Len0(adj) # Len0(other) \/ DegreePrune(adj, other)
       THEN pc' = "iso_done" /\ iso_found' = FALSE
       ELSE pc' = "iso_perms" /\ UNCHANGED iso_found
    /\ UNCHANGED <<perm, iso_perm>>
    /\ Frame({"iso"})

\* one permutation of the loop, lines 86-107
IsoTest ==
    /\ pc = "iso_perms"
    /\ perms_tested < Len(PermTuples[Len0(adj)])
    /\ LET q == PermTuples[Len0(adj)][perms_tested + 1]
       IN /\ perm' = q
          /\ IF DegreesMatch(adj, other, q) /\ AdjacencyMatches(adj, other, q)
             THEN pc' = "iso_done" /\ iso_found' = TRUE /\ iso_perm' = q
             ELSE pc' = "iso_perms" /\ UNCHANGED <<iso_found, iso_perm>>
    /\ perms_tested' = perms_tested + 1
    /\ Frame({"iso"})

\* line 109: the permutations have run out
IsoExhausted ==
    /\ pc = "iso_perms"
    /\ perms_tested = Len(PermTuples[Len0(adj)])
    /\ pc' = "iso_done"
    /\ iso_found' = FALSE
    /\ UNCHANGED <<perm, perms_tested, iso_perm>>
    /\ Frame({"iso"})

IsoNext == IsoCall \/ IsoTest \/ IsoExhausted

SpecIso == IsoInit /\ [][IsoNext]_vars

\* b is a with its vertices renamed by q
IsRelabelling(a, b, q) ==
    /\ DOMAIN b = DOMAIN a
    /\ \A i, j \in DOMAIN a : b[q[i]][q[j]] = a[i][j]

\* C10: when other is the relabelling of the graph under some permutation,
\* is_isomorphic_to returns True with a witness; when the two graphs are
\* identical the identity passes the adjacency check and True is returned.
C10_RelabellingIsomorphic ==
    pc = "iso_done" =>
        /\ (Len0(adj) = Len0(other)
              /\ \E q \in Perms(Len0(adj)) : IsRelabelling(adj, other, q))
           => (iso_found /\ iso_perm \in Perms(Len0(adj)))
        /\ other = adj =>
              (iso_found /\ AdjacencyMatches(adj, other, [i \in DOMAIN adj |-> i]))

\* True is returned for a relabelled graph that differs from the original,
\* after at least one permutation has been rejected
C10_Witness ==
    /\ pc = "iso_done" /\ iso_found /\ other # adj /\ perms_tested >= 2
    /\ Len0(adj) = 3
    /\ IsRelabelling(adj, other, iso_perm)

\* C11: a True answer comes with a bijection on 0..n-1 under which every cell
\* of the first matrix equals the permuted cell of the second; a False
\* answer comes with no permutation and only when no such bijection exists
\* (the degree tests, on row sums, discard no isomorphic pair).
C11_AnswerIsExact ==
    pc = "iso_done" =>
        IF iso_found
        THEN /\ Len0(adj) = Len0(other)
             /\ iso_perm \in [DOMAIN adj -> DOMAIN adj]
             /\ \A i, j \in DOMAIN adj : i # j => iso_perm[i] # iso_perm[j]
             /\ \A i, j \in DOMAIN adj :
                    adj[i][j] = other[iso_perm[i]][iso_perm[j]]
        ELSE /\ iso_perm = Idle
             /\ ~ (/\ Len0(adj) = Len0(other)
                   /\ \E q \in Perms(Len0(adj)) : IsRelabelling(adj, other, q))

\* False is returned for two directed graphs on three vertices that pass the
\* degree-sequence test, after every permutation was tried
C11_Witness ==
    /\ pc = "iso_done" /\ ~ iso_found
    /\ Len0(adj) = 3 /\ Len0(other) = 3
    /\ perms_tested = 6
    /\ \E i, j \in DOMAIN adj : adj[i][j] # adj[j][i]

\* the number of vertices of degree d
DegreeCount(a, d) ==
    Cardinality({i \in DOMAIN a : RowSum(a[i], Len0(a)) = d})

\* the two graphs pass both cheap tests
SameShape(a, b) ==
    /\ Len0(a) = Len0(b)
    /\ \A d \in 0 .. Len0(a) : DegreeCount(a, d) = DegreeCount(b, d)

\* C12: when the vertex counts or the multisets of degrees differ, no
\* permutation is generated or tested at any point of the call, and the
\* call ends with False and no permutation.
C12_PruneBeforeEnumeration ==
    ~ SameShape(adj, other) =>
        /\ pc \in {"iso_start", "iso_done"}
        /\ perm = Idle
        /\ pc = "iso_done" =>
              (perms_tested = 0 /\ iso_found = FALSE /\ iso_perm = Idle)

\* two graphs of the same size are rejected by their degree sequences
C12_Witness ==
    /\ pc = "iso_done" /\ iso_found = FALSE
    /\ Len0(adj) = Len0(other) /\ Len0(adj) = 3
    /\ ~ SameShape(adj, other)
    /\ perms_tested = 0

\* -------------------------------------------------------------- tree check
\* WeightedGraph.neighbors(v) of tree_check_height, in index order
TreeNeighbors(W, v) == SortedSeq({u \in DOMAIN W : W[v][u] > 0})

\* edges_count(), from cell (i, j) on: the positive cells above the diagonal
RECURSIVE EdgesCountFrom(_, _, _)
EdgesCountFrom(W, i, j) ==
    IF i >= Len0(W) THEN 0
    ELSE IF j >= Len0(W) THEN EdgesCountFrom(W, i + 1, i + 2)
    ELSE (IF W[i][j] > 0 THEN 1 ELSE 0) + EdgesCountFrom(W, i, j + 1)

\* is_connected, lines 85-88: the neighbours ns of the vertex just popped
RECURSIVE ConnVisit(_, _, _)
ConnVisit(ns, visited, queue) ==
    IF ns = <<>> THEN <<visited, queue>>
    ELSE IF ~ visited[Head(ns)]
         THEN ConnVisit(Tail(ns), [visited EXCEPT ![Head(ns)] = TRUE],
                        Append(queue, Head(ns)))
         ELSE ConnVisit(Tail(ns), visited, queue)

\* is_connected, lines 83-88
RECURSIVE ConnLoop(_, _, _)
ConnLoop(W, visited, queue) ==
    IF queue = <<>> THEN visited
    ELSE LET r == ConnVisit(TreeNeighbors(W, Head(queue)), visited, Tail(queue))
         IN ConnLoop(W, r[1], r[2])

\* is_connected(), lines 76-90
IsConnected(W) ==
    IF Len0(W) = 0 THEN FALSE
    ELSE LET visited == ConnLoop(W, [i \in DOMAIN W |-> i = 0], <<0>>)
         IN \A i \in DOMAIN W : visited[i]

\* the edge count is not compared
IsTreeConnectedOnly(W) == IsConnected(W)

\* is_tree(), lines 95-99
IsTree(W) ==
    IF ~ IsConnected(W) THEN FALSE
    ELSE IF EdgesCountFrom(W, 0, 1) # Len0(W) - 1 THEN FALSE
    ELSE TRUE

\* tree_height_from_root, lines 113-116: the neighbours ns of v
RECURSIVE HeightVisit(_, _, _, _)
HeightVisit(ns, v, d, queue) ==
    IF ns = <<>> THEN <<d, queue>>
    ELSE IF d[Head(ns)] = -1
         THEN HeightVisit(Tail(ns), v, [d EXCEPT ![Head(ns)] = d[v] + 1],
                          Append(queue, Head(ns)))
         ELSE HeightVisit(Tail(ns), v, d, queue)

\* min() in place of max()
MinOf(d) == CHOOSE x \in {d[i] : i \in DOMAIN d} : \A i \in DOMAIN d : x <= d[i]

\* max(dist)
MaxOf(d) == CHOOSE x \in {d[i] : i \in DOMAIN d} : \A i \in DOMAIN d : x >= d[i]

TreeInit ==
    /\ pc = "tree_start"
    /\ \E n \in 1 .. TreeMaxN : w \in SymWeightMatrices(n, TreeMaxEdges, 1 .. TreeMaxW)
    /\ adj = Idle /\ cap = Idle /\ other = Idle
    /\ WorkIdle

\* main, lines 152-156: is_tree() and the dash
TreeCheck ==
    /\ pc = "tree_start"
    /\ tree_ok' = IsTree(w)
    /\ IF ~ IsTree(w)
       THEN pc' = "tree_done" /\ height' = "-"
       ELSE pc' = "tree_check_ok" /\ UNCHANGED height
    /\ UNCHANGED <<t_root, t_dist, t_queue>>
    /\ Frame({"tree"})

\* tree_height_from_root(root), lines 107-109, called once is_tree() has
\* answered True (main line 161 passes root = 0; the method takes any root)
TreeHeightCall(root) ==
    /\ pc = "tree_check_ok"
    /\ t_root' = root
    /\ t_dist' = [i \in DOMAIN w |-> IF i = root THEN 0 ELSE -1]
    /\ t_queue' = <<root>>
    /\ pc' = "tree_bfs"
    /\ UNCHANGED <<tree_ok, height>>
    /\ Frame({"tree"})

\* one iteration of the while loop, lines 111-116
TreeBfsStep ==
    /\ pc = "tree_bfs"
    /\ t_queue # <<>>
    /\ LET v == Head(t_queue)
           r == HeightVisit(TreeNeighbors(w, v), v, t_dist, Tail(t_queue))
       IN t_dist' = r[1] /\ t_queue' = r[2]
    /\ UNCHANGED <<pc, tree_ok, t_root, height>>
    /\ Frame({"tree"})

\* line 118 and main lines 162-165
TreeHeightReturn ==
    /\ pc = "tree_bfs"
    /\ t_queue = <<>>
    /\ height' = MaxOf(t_dist)
    /\ pc' = "tree_done"
    /\ UNCHANGED <<tree_ok, t_root, t_dist, t_queue>>
    /\ Frame({"tree"})

TreeNext ==
    \/ TreeCheck
    \/ \E root \in DOMAIN w : TreeHeightCall(root)
    \/ TreeBfsStep
    \/ TreeHeightReturn

SpecTree == TreeInit /\ [][TreeNext]_vars

\* the undirected edges of a symmetric matrix
UndirectedEdges(W) ==
    {{p[1], p[2]} : p \in {q \in UpperPairs(Len0(W)) : W[q[1]][q[2]] > 0}}

\* one vertex is joined to every other and there is no other edge
IsStar(W, c) ==
    /\ \A i \in DOMAIN W \ {c} : W[c][i] > 0
    /\ \A i, j \in DOMAIN W \ {c} : W[i][j] = 0

\* a simple cycle through all the vertices, three at least
IsSimpleCycle(W) ==
    /\ Len0(W) >= 3
    /\ \A i \in DOMAIN W : Cardinality({j \in DOMAIN W : W[i][j] > 0}) = 2
    /\ Connected(W)

\* C13: is_tree() answers True exactly for the connected graphs with n-1
\* edges, which are exactly the connected graphs without a cycle; a star is
\* a tree, a simple cycle on three or more vertices is not.
C13_IsTreeExact ==
    pc # "tree_start" =>
        LET connected == Connected(w)
            E == UndirectedEdges(w)
        IN /\ tree_ok <=> (connected /\ Cardinality(E) = Len0(w) - 1)
           /\ tree_ok <=> (connected /\ Acyclic(E))
           /\ (\E c \in DOMAIN w : IsStar(w, c)) => tree_ok
           /\ IsSimpleCycle(w) => ~ tree_ok

\* the cycle on four vertices has been refused
C13_Witness ==
    /\ pc = "tree_done" /\ tree_ok = FALSE
    /\ Len0(w) = 4 /\ IsSimpleCycle(w)

\* the number of edges on a shortest path from r to v in a connected graph
HopDistance(W, r, v) ==
    CHOOSE k \in 0 .. Len0(W) :
        /\ <<r, v>> \in PathsWithin(EdgeMatrix(W), k)
        /\ k > 0 => <<r, v>> \notin PathsWithin(EdgeMatrix(W), k - 1)

\* C14: the height computation starts only for a graph that is_tree() has
\* confirmed; its result is the largest number of edges between the root
\* and a vertex (1 for a star rooted at its centre, 0 for one vertex); a
\* graph that is not a tree gets the dash and no height.
C14_HeightOnlyForTrees ==
    /\ pc \in {"tree_check_ok", "tree_bfs"} =>
          (tree_ok /\ Connected(w) /\ Acyclic(UndirectedEdges(w)))
    /\ pc # "tree_done" => height = Idle
    /\ pc = "tree_done" =>
          IF Connected(w) /\ Acyclic(UndirectedEdges(w))
          THEN /\ LET hops == [v \in DOMAIN w |-> HopDistance(w, t_root, v)]
                  IN /\ \E v \in DOMAIN w : height = hops[v]
                     /\ \A v \in DOMAIN w : height >= hops[v]
               /\ (Len0(w) >= 2 /\ IsStar(w, t_root)) => height = 1
               /\ Len0(w) = 1 => height = 0
          ELSE height = "-" /\ t_dist = Idle /\ t_root = Idle

\* the height of a path on four vertices rooted at one of its ends
C14_Witness ==
    /\ pc = "tree_done" /\ tree_ok = TRUE
    /\ Len0(w) = 4 /\ height = 3 /\ t_root # 0

\* the sum of the weights along a vertex list
RECURSIVE PathWeight(_, _)
PathWeight(W, q) ==
    IF Len(q) < 2 THEN 0 ELSE W[q[1]][q[2]] + PathWeight(W, Tail(q))

\* C15: reconstruct_path after dijkstra returns the empty list exactly when
\* the target's distance is the unreachable value; otherwise a list from
\* start to target over existing edges whose weights add up to the
\* target's distance.  On the path 1-2-3 with weights 2 and 3, from vertex
\* 1 the distances are 0, 2, 5 and the path to vertex 3 is 1, 2, 3.
C15_PathMatchesDistance ==
    pc = "path_done" =>
        /\ sp_path = <<>> <=> dist[target] = INF
        /\ sp_path # <<>> =>
              /\ sp_path[1] = start /\ sp_path[Len(sp_path)] = target
              /\ \A k \in 1 .. (Len(sp_path) - 1) : w[sp_path[k]][sp_path[k + 1]] > 0
              /\ dist[target] = Fin(PathWeight(w, sp_path))
        /\ (w = WeightedPath123 /\ start = 0) =>
              /\ dist = [v \in Idx(3) |-> Fin(IF v = 0 THEN 0 ELSE IF v = 1 THEN 2 ELSE 5)]
              /\ target = 2 => sp_path = <<0, 1, 2>>

\* the path 1, 2, 3 has been rebuilt on the weighted path graph
C15_Witness ==
    /\ pc = "path_done" /\ w = WeightedPath123
    /\ start = 0 /\ target = 2 /\ sp_path = <<0, 1, 2>>

\* ------------------------------------------------------ the main functions
\* only the first row is inspected
HasNegativeFirstRow(W) == \E j \in DOMAIN W : W[0][j] < 0

\* from_file of the Dijkstra program, lines 45-49: a value below zero
HasNegative(W) == \E i, j \in DOMAIN W : W[i][j] < 0

\* vertex 1 is refused
InRangeAboveOne(k, n) == 1 < k /\ k <= n

\* 1 <= k <= n of the main functions
InRange(k, n) == 1 <= k /\ k <= n

\* _build_adj_list of the traversal program: adj_list[v]
TravAdj(W, v) == SortedSeq({u \in DOMAIN W : W[v][u] > 0})

\* the new vertices go to the front of the queue
BfsEnqueueFront(ns, visited, queue) ==
    LET Fresh(u) == ~ visited[u]
        new == SelectSeq(ns, Fresh)
    IN <<[i \in DOMAIN visited |->
             visited[i] \/ \E x \in 1 .. Len(new) : new[x] = i],
         new \o queue>>

\* bfs_iterative, lines 73-76
RECURSIVE BfsEnqueue(_, _, _)
BfsEnqueue(ns, visited, queue) ==
    IF ns = <<>> THEN <<visited, queue>>
    ELSE IF ~ visited[Head(ns)]
         THEN BfsEnqueue(Tail(ns), [visited EXCEPT ![Head(ns)] = TRUE],
                         Append(queue, Head(ns)))
         ELSE BfsEnqueue(Tail(ns), visited, queue)

\* bfs_iterative, lines 70-78
RECURSIVE BfsIterLoop(_, _, _, _)
BfsIterLoop(W, visited, queue, order) ==
    IF queue = <<>> THEN order
    ELSE LET v == Head(queue)
             r == BfsEnqueue(TravAdj(W, v), visited, Tail(queue))
         IN BfsIterLoop(W, r[1], r[2], Append(order, v))

\* the neighbours are pushed last first, so that the last is popped first
DfsPushBackwards(ns, visited, stack) ==
    LET Fresh(u) == ~ visited[u]
    IN stack \o SelectSeq(Reverse(ns), Fresh)

\* dfs_iterative, lines 93-95: ns is the reversed adjacency list
RECURSIVE DfsPush(_, _, _)
DfsPush(ns, visited, stack) ==
    IF ns = <<>> THEN stack
    ELSE IF ~ visited[Head(ns)]
         THEN DfsPush(Tail(ns), visited, Append(stack, Head(ns)))
         ELSE DfsPush(Tail(ns), visited, stack)

\* dfs_iterative, lines 86-97
RECURSIVE DfsIterLoop(_, _, _, _)
DfsIterLoop(W, visited, stack, order) ==
    IF stack = <<>> THEN order
    ELSE LET v == stack[Len(stack)]
             rest == SubSeq(stack, 1, Len(stack) - 1)
             seen == [visited EXCEPT ![v] = TRUE]
         IN IF visited[v] THEN DfsIterLoop(W, visited, rest, order)
            ELSE DfsIterLoop(W, seen, DfsPush(Reverse(TravAdj(W, v)), seen, rest),
                             Append(order, v))

\* reconstruct_path of the Floyd-Warshall program, lines 119-124
RECURSIVE FwWalk(_, _, _, _)
FwWalk(nx, cur, e, acc) ==
    IF cur = e THEN acc
    ELSE IF nx[cur][e] = NoneV THEN <<>>
    ELSE FwWalk(nx, nx[cur][e], e, Append(acc, nx[cur][e]))

\* reconstruct_path of the Floyd-Warshall program
FwReconstructPath(nx, s0, e) ==
    IF nx[s0][e] = NoneV /\ s0 # e THEN <<>> ELSE FwWalk(nx, s0, e, <<s0>>)

\* equal source and sink are let through
FlowSelectionBadRangeOnly(s, t, n) == ~ (InRange(s, n) /\ InRange(t, n))

\* max-flow main, line 205
FlowSelectionBad(s, t, n) == ~ (InRange(s, n) /\ InRange(t, n)) \/ s = t

MainsInit ==
    /\ \/ /\ pc = "trav_start" /\ cap = Idle
          /\ \E n \in 1 .. TravMaxN : w \in WeightMatrices(n, TravMaxEdges, {1})
       \/ \E n \in 1 .. MainMaxN :
          \/ /\ pc \in {"dijm_start", "fw_start"} /\ cap = Idle
             /\ w \in WeightMatrices(n, MainMaxEdges, ((0 - MainMaxW) .. MainMaxW) \ {0})
          \/ /\ pc = "flowm_start" /\ w = Idle
             /\ cap \in WeightMatrices(n, MainMaxEdges, 1 .. MainMaxW)
    /\ adj = Idle /\ other = Idle
    /\ WorkIdle

\* traversal main, lines 150-172: an empty or unusable answer means vertex 1
TravMain ==
    /\ pc = "trav_start"
    /\ \E raw \in {<<>>} \cup {<<k>> : k \in 0 .. (Len0(w) + 1)} :
          LET st == IF raw = <<>> THEN 0
                    ELSE IF ~ InRange(raw[1], Len0(w)) THEN 0
                    ELSE raw[1] - 1
          IN /\ sel' = raw
             /\ trav_at' = st
             /\ bfs_order' = BfsIterLoop(w, [i \in DOMAIN w |-> i = st], <<st>>, <<>>)
             /\ dfs_order' = DfsIterLoop(w, [i \in DOMAIN w |-> FALSE], <<st>>, <<>>)
    /\ pc' = "trav_done"
    /\ UNCHANGED fw_path
    /\ Frame({"main"})

\* Dijkstra main, lines 157-162: from_file refuses a negative value
DijLoad ==
    /\ pc = "dijm_start"
    /\ pc' = IF HasNegative(w) THEN "dijm_error" ELSE "dijm_loaded"
    /\ Frame({})

\* Dijkstra main, lines 171-190: the pair of vertices, then dijkstra(start)
DijSelect ==
    /\ pc = "dijm_loaded"
    /\ \E s, t \in 0 .. (Len0(w) + 1) :
          /\ sel' = <<s, t>>
          /\ IF ~ (InRange(s, Len0(w)) /\ InRange(t, Len0(w)))
             THEN pc' = "dijm_error" /\ UNCHANGED <<dijkstraVars, pathVars>>
             ELSE /\ DijkstraStart(s - 1)
                  /\ target' = t - 1
                  /\ pc' = "dij_run"
                  /\ UNCHANGED sp_path
    /\ UNCHANGED <<trav_at, bfs_order, dfs_order, fw_path>>
    /\ Frame({"dijkstra", "path", "main"})

\* Dijkstra main, line 197
DijMainPath ==
    /\ pc = "dij_done"
    /\ sp_path' = ReconstructPathOf(prev, start, target)
    /\ pc' = "path_done"
    /\ UNCHANGED target
    /\ Frame({"path"})

\* Floyd-Warshall main, lines 197-219: the pair is asked for once
\* floyd_warshall() has returned and its matrices are printed
FwSelect ==
    /\ pc = "fw_done"
    /\ \E s, t \in 0 .. (Len0(w) + 1) :
          /\ sel' = <<s, t>>
          /\ IF ~ (InRange(s, Len0(w)) /\ InRange(t, Len0(w)))
             THEN pc' = "fwm_error" /\ UNCHANGED fw_path
             ELSE /\ pc' = "fwm_done"
                  /\ IF fw_dist[s - 1][t - 1].inf
                     THEN UNCHANGED fw_path
                     ELSE fw_path' = FwReconstructPath(nxt, s - 1, t - 1)
    /\ UNCHANGED <<trav_at, bfs_order, dfs_order>>
    /\ Frame({"main"})

\* max-flow main, lines 199-213: source and sink, then the algorithm
FlowSelect ==
    /\ pc = "flowm_start"
    /\ \E s, t \in 0 .. (Len0(cap) + 1) :
          /\ sel' = <<s, t>>
          /\ IF FlowSelectionBad(s, t, Len0(cap))
             THEN pc' = "flowm_error" /\ UNCHANGED flowVars
             ELSE MaxFlowStart(s - 1, t - 1)
    /\ UNCHANGED <<trav_at, bfs_order, dfs_order, fw_path>>
    /\ Frame({"flow", "main"})

MainsNext ==
    \/ TravMain
    \/ DijLoad \/ DijSelect \/ DijkstraLoop \/ DijkstraReturn \/ DijMainPath
    \/ FloydInit \/ FloydStep \/ FloydReturn \/ FwSelect
    \/ FlowSelect \/ FlowAugment \/ FlowUpdate

SpecMains == MainsInit /\ [][MainsNext]_vars

\* floyd_warshall() alone, on signed weights
FloydSignedInit ==
    /\ pc = "fw_start"
    /\ \E n \in 1 .. FwMaxN : w \in WeightMatrices(n, FwMaxEdges, ((0 - FwMaxW) .. FwMaxW) \ {0})
    /\ adj = Idle /\ cap = Idle /\ other = Idle
    /\ WorkIdle

\* reconstruct_path(nxt, start, end) on the matrices returned
FloydReconstruct ==
    /\ pc = "fw_done"
    /\ \E s0, e \in DOMAIN w :
          /\ start' = s0 /\ target' = e
          /\ fw_path' = FwReconstructPath(nxt, s0, e)
    /\ pc' = "fw_path"
    /\ UNCHANGED <<dist, prev, heap, sp_path, floydVars>>
    /\ UNCHANGED <<sel, trav_at, bfs_order, dfs_order>>
    /\ Frame({"floyd", "dijkstra", "path", "main"})

FloydNext == FloydInit \/ FloydStep \/ FloydReturn \/ FloydReconstruct

SpecFloyd == FloydSignedInit /\ [][FloydNext]_vars

\* the states of the Dijkstra program
DijProgram ==
    pc \in {"dijm_start", "dijm_loaded", "dijm_error", "dij_run", "dij_done", "path_done"}

\* C16: the Dijkstra program given a matrix with a negative entry stops
\* with an error before the algorithm: nothing of dijkstra's state exists,
\* no vertex is asked for, no distance or predecessor vector is produced.
C16_NegativeWeightRejected ==
    (DijProgram /\ \E i, j \in DOMAIN w : w[i][j] < 0) =>
        /\ pc \in {"dijm_start", "dijm_error"}
        /\ sel = Idle
        /\ dist = Idle /\ prev = Idle /\ heap = Idle /\ sp_path = Idle

\* a matrix with one positive and one negative arc, the negative one
\* not in the first row, has been refused
C16_Witness ==
    /\ pc = "dijm_error" /\ sel = Idle
    /\ \E i, j \in DOMAIN w : i > 0 /\ w[i][j] < 0
    /\ \E i, j \in DOMAIN w : w[i][j] > 0
    /\ \A j \in DOMAIN w : w[0][j] >= 0

\* the sequences of k distinct vertices
RECURSIVE DistinctSeqs(_, _)
DistinctSeqs(V, k) ==
    IF k = 0 THEN {<<>>}
    ELSE UNION {{Append(q, v) : v \in V \ {q[x] : x \in 1 .. Len(q)}} :
                    q \in DistinctSeqs(V, k - 1)}

\* the vertex after position x on the closed walk c
After(c, x) == c[(x % Len(c)) + 1]

RECURSIVE ClosedWeight(_, _, _)
\* the weight of the first x arcs of the closed walk c
ClosedWeight(W, c, x) ==
    IF x = 0 THEN 0 ELSE W[c[x]][After(c, x)] + ClosedWeight(W, c, x - 1)

\* some directed cycle has a negative total weight
HasNegativeCycle(W) ==
    \E k \in 2 .. Len0(W) : \E c \in DistinctSeqs(DOMAIN W, k) :
        /\ \A x \in 1 .. k : W[c[x]][After(c, x)] # 0
        /\ ClosedWeight(W, c, k) < 0

\* C17: on a signed matrix with zero diagonal floyd_warshall() ends with
\* the negative-cycle error exactly when some directed cycle has a negative
\* total weight, and returns its matrices exactly when none has.
C17_NegativeCycleDetected ==
    /\ pc = "fw_error" => HasNegativeCycle(w)
    /\ pc = "fw_done" => ~ HasNegativeCycle(w)

\* the error has been raised for a negative cycle through three vertices,
\* no two of them joined in both directions
C17_Witness ==
    /\ pc = "fw_error" /\ Len0(w) = 3
    /\ \A i, j \in DOMAIN w : w[i][j] # 0 => w[j][i] = 0

\* the states of the max-flow program
FlowProgram ==
    pc \in {"flowm_start", "flowm_error", "flow_loop", "flow_update", "flow_done"}

\* C18: the max-flow program asked for a source equal to the sink, or for a
\* source or sink outside 1..n, stops with an error: no flow value and no
\* list of augmenting paths exists.
C18_BadSourceSinkRejected ==
    (FlowProgram /\ sel # Idle) =>
        ((sel[1] = sel[2] \/ {sel[1], sel[2]} \ (1 .. Len0(cap)) # {}) =>
            /\ pc = "flowm_error"
            /\ max_flow = Idle /\ augmenting_paths = Idle /\ residual = Idle)

\* a source equal to the sink, both valid vertices, has been refused
C18_Witness ==
    /\ pc = "flowm_error" /\ Len0(cap) = 3
    /\ sel[1] = sel[2] /\ sel[1] \in 1 .. 3
    /\ \E i, j \in DOMAIN cap : cap[i][j] > 0

\* the numbers typed, when some number is outside 1..n
OutOfRange(n) == sel # Idle /\ {sel[x] : x \in 1 .. Len(sel)} \ (1 .. n) # {}

\* the numbers typed, all of them inside 1..n
AllInRange(n) == sel # Idle /\ {sel[x] : x \in 1 .. Len(sel)} \subseteq 1 .. n

\* the states of the traversal program and of the Floyd-Warshall program
TravProgram == pc \in {"trav_start", "trav_done"}
FwProgram == pc \in {"fw_start", "fw_run", "fw_error", "fw_done", "fwm_error", "fwm_done"}

IncInit ==
    /\ pc = "inc_file"
    /\ adj = Idle /\ w = Idle /\ cap = Idle /\ other = Idle
    /\ WorkIdle

\* IncidenceGraph.from_file: a rectangular matrix over -1, 0, 1 is read
\* and its columns are tested, lines 44-62
IncFromFile ==
    /\ pc = "inc_file"
    /\ \E n \in 1 .. IncMaxN, m \in 1 .. IncMaxM :
          \E mat \in [Idx(n) -> [Idx(m) -> {-1, 0, 1}]] :
              /\ inc' = mat
              /\ pc' = IF IncGraphOk(mat) THEN "inc_loaded" ELSE "inc_error"
    /\ UNCHANGED <<edges_list, adj_back>>
    /\ Frame({"conv"})

\* main: graph.edges(), then graph.to_adjacency_matrix()
IncConvert ==
    /\ pc = "inc_loaded"
    /\ edges_list' = IncGraphEdges(inc)
    /\ adj_back' = ToAdjacencyMatrix(inc)
    /\ pc' = "inc_done"
    /\ UNCHANGED inc
    /\ Frame({"conv"})

IncNext == IncFromFile \/ IncConvert

SpecInc == IncInit /\ [][IncNext]_vars

\* the rows of column e that hold the value x
RowsWith(m, e, x) == {v \in DOMAIN m : m[v][e] = x}

\* column e is an undirected edge, or a directed one
TwoPlus(m, e) ==
    Cardinality(RowsWith(m, e, 1)) = 2 /\ RowsWith(m, e, -1) = {}
PlusMinus(m, e) ==
    Cardinality(RowsWith(m, e, 1)) = 1 /\ Cardinality(RowsWith(m, e, -1)) = 1

\* C20: a matrix is accepted exactly when each of its columns has two +1
\* and no -1 (an undirected edge between the two rows) or one +1 and one -1
\* (an arc from the -1 row to the +1 row); the adjacency matrix has exactly
\* these edges.  Any other column ends the run with an error and no
\* adjacency matrix.
C20_ColumnShapes ==
    pc # "inc_file" =>
        LET cols == Idx(Len0(inc[0]))
            good == \A e \in cols : TwoPlus(inc, e) \/ PlusMinus(inc, e)
        IN /\ pc = "inc_error" <=> ~ good
           /\ pc = "inc_error" => (adj_back = Idle /\ edges_list = Idle)
           /\ pc = "inc_done" =>
                 \A u, v \in DOMAIN inc :
                     adj_back[u][v] = 1 <=>
                         \E e \in cols :
                             \/ TwoPlus(inc, e) /\ RowsWith(inc, e, 1) = {u, v} /\ u # v
                             \/ /\ PlusMinus(inc, e)
                                /\ RowsWith(inc, e, -1) = {u}
                                /\ RowsWith(inc, e, 1) = {v}
           /\ pc = "inc_done" =>
                 \A u, v \in DOMAIN inc : adj_back[u][v] \in {0, 1}

\* a matrix with a well-formed column beside a column of two +1 and one -1
\* has been refused
C20_Witness ==
    /\ pc = "inc_error" /\ Len0(inc) = 3 /\ Len0(inc[0]) = 2
    /\ \E e \in Idx(2) : PlusMinus(inc, e)
    /\ \E e \in Idx(2) :
          Cardinality(RowsWith(inc, e, 1)) = 2 /\ Cardinality(RowsWith(inc, e, -1)) = 1

\* ------------------------------------------------ reading a square matrix
\* no file has been read
FileInit ==
    /\ pc = "from_file"
    /\ adj = Idle /\ w = Idle /\ cap = Idle /\ other = Idle
    /\ WorkIdle

\* adjacency -> incidence, Graph.from_file: 0 and 1 only, no 1 on the diagonal
AdjIncFromFileLoops ==
    /\ pc = "from_file"
    /\ \E n \in 1 .. FileMaxN : \E m \in [Idx(n) -> [Idx(n) -> -1 .. 2]] :
       LET ok == \A i, j \in Idx(n) : m[i][j] \in {0, 1}
       IN /\ matrix' = m
          /\ graph' = IF ok THEN m ELSE Idle
          /\ pc' = IF ok THEN "adj2inc_graph" ELSE "adj2inc_error"
    /\ Frame({"file"})

AdjIncFromFile ==
    /\ pc = "from_file"
    /\ \E n \in 1 .. FileMaxN : \E m \in [Idx(n) -> [Idx(n) -> -1 .. 2]] :
       LET ok == /\ \A i, j \in Idx(n) : m[i][j] \in {0, 1}
                 /\ \A i \in Idx(n) : m[i][i] # 1
       IN /\ matrix' = m
          /\ graph' = IF ok THEN m ELSE Idle
          /\ pc' = IF ok THEN "adj2inc_graph" ELSE "adj2inc_error"
    /\ Frame({"file"})

\* reachability, Graph.from_file: 0 and 1 only
ReachFromFile ==
    /\ pc = "from_file"
    /\ \E n \in 1 .. FileMaxN : \E m \in [Idx(n) -> [Idx(n) -> -1 .. 2]] :
       LET ok == \A i, j \in Idx(n) : m[i][j] \in {0, 1}
       IN /\ matrix' = m
          /\ graph' = IF ok THEN m ELSE Idle
          /\ pc' = IF ok THEN "adj2reach_graph" ELSE "adj2reach_error"
    /\ Frame({"file"})

\* radius and diameter, Graph.from_file: digits only, 0 and 1 only, symmetric
RadiusFromFile ==
    /\ pc = "from_file"
    /\ \E n \in 1 .. FileMaxN : \E m \in [Idx(n) -> [Idx(n) -> -1 .. 2]] :
       LET ok == /\ \A i, j \in Idx(n) : m[i][j] >= 0
                 /\ \A i, j \in Idx(n) : m[i][j] \in {0, 1}
                 /\ \A i, j \in Idx(n) : m[i][j] = m[j][i]
       IN /\ matrix' = m
          /\ graph' = IF ok THEN m ELSE Idle
          /\ pc' = IF ok THEN "radius_graph" ELSE "radius_error"
    /\ Frame({"file"})

\* isomorphism, Graph.from_file: 0 and 1 only, zero diagonal
IsoFromFile ==
    /\ pc = "from_file"
    /\ \E n \in 1 .. FileMaxN : \E m \in [Idx(n) -> [Idx(n) -> -1 .. 2]] :
       LET ok == /\ \A i, j \in Idx(n) : m[i][j] \in {0, 1}
                 /\ \A i \in Idx(n) : m[i][i] = 0
       IN /\ matrix' = m
          /\ graph' = IF ok THEN m ELSE Idle
          /\ pc' = IF ok THEN "iso_graph" ELSE "iso_error"
    /\ Frame({"file"})

\* traversal, WeightedGraph.from_file: no negative value, zero diagonal
TravFromFile ==
    /\ pc = "from_file"
    /\ \E n \in 1 .. FileMaxN : \E m \in [Idx(n) -> [Idx(n) -> -1 .. 2]] :
       LET ok == \A i, j \in Idx(n) :
                     ~ (m[i][j] < 0) /\ ~ (i = j /\ m[i][j] # 0)
       IN /\ matrix' = m
          /\ graph' = IF ok THEN m ELSE Idle
          /\ pc' = IF ok THEN "trav_graph" ELSE "trav_error"
    /\ Frame({"file"})

\* Dijkstra, WeightedGraph.from_file: no negative value, zero diagonal
DijFromFile ==
    /\ pc = "from_file"
    /\ \E n \in 1 .. FileMaxN : \E m \in [Idx(n) -> [Idx(n) -> -1 .. 2]] :
       LET ok == \A i, j \in Idx(n) :
                     ~ (m[i][j] < 0) /\ ~ (i = j /\ m[i][j] # 0)
       IN /\ matrix' = m
          /\ graph' = IF ok THEN m ELSE Idle
          /\ pc' = IF ok THEN "dij_graph" ELSE "dij_error"
    /\ Frame({"file"})

\* Floyd-Warshall, WeightedGraph.from_file: zero diagonal, any sign elsewhere
FwFromFile ==
    /\ pc = "from_file"
    /\ \E n \in 1 .. FileMaxN : \E m \in [Idx(n) -> [Idx(n) -> -1 .. 2]] :
       LET ok == \A i \in Idx(n) : ~ (m[i][i] # 0)
       IN /\ matrix' = m
          /\ graph' = IF ok THEN m ELSE Idle
          /\ pc' = IF ok THEN "fw_graph" ELSE "fw_error"
    /\ Frame({"file"})

\* Prim, WeightedGraph.from_file: no negative value, zero diagonal, symmetric
PrimFromFile ==
    /\ pc = "from_file"
    /\ \E n \in 1 .. FileMaxN : \E m \in [Idx(n) -> [Idx(n) -> -1 .. 2]] :
       LET ok == /\ \A i, j \in Idx(n) :
                        ~ (m[i][j] < 0) /\ ~ (i = j /\ m[i][j] # 0)
                 /\ \A i, j \in Idx(n) : m[i][j] = m[j][i]
       IN /\ matrix' = m
          /\ graph' = IF ok THEN m ELSE Idle
          /\ pc' = IF ok THEN "prim_graph" ELSE "prim_error"
    /\ Frame({"file"})

\* max-flow, FlowNetwork.from_file: no negative value, zero diagonal
FlowFromFile ==
    /\ pc = "from_file"
    /\ \E n \in 1 .. FileMaxN : \E m \in [Idx(n) -> [Idx(n) -> -1 .. 2]] :
       LET ok == \A i, j \in Idx(n) :
                     ~ (m[i][j] < 0) /\ ~ (i = j /\ m[i][j] # 0)
       IN /\ matrix' = m
          /\ graph' = IF ok THEN m ELSE Idle
          /\ pc' = IF ok THEN "flow_graph" ELSE "flow_error"
    /\ Frame({"file"})

\* colouring, Graph.from_file: no negative value, zero diagonal, symmetric;
\* the graph keeps 1 where the matrix is positive
ColorFromFile ==
    /\ pc = "from_file"
    /\ \E n \in 1 .. FileMaxN : \E m \in [Idx(n) -> [Idx(n) -> -1 .. 2]] :
       LET ok == /\ \A i, j \in Idx(n) :
                        ~ (m[i][j] < 0) /\ ~ (i = j /\ m[i][j] # 0)
                 /\ \A i, j \in Idx(n) : m[i][j] = m[j][i]
       IN /\ matrix' = m
          /\ graph' = IF ok
                      THEN [i \in Idx(n) |->
                               [j \in Idx(n) |-> IF m[i][j] > 0 THEN 1 ELSE 0]]
                      ELSE Idle
          /\ pc' = IF ok THEN "color_graph" ELSE "color_error"
    /\ Frame({"file"})

\* tree check, WeightedGraph.from_file: no negative value, zero diagonal,
\* symmetric
TreeFromFile ==
    /\ pc = "from_file"
    /\ \E n \in 1 .. FileMaxN : \E m \in [Idx(n) -> [Idx(n) -> -1 .. 2]] :
       LET ok == /\ \A i, j \in Idx(n) :
                        ~ (m[i][j] < 0) /\ ~ (i = j /\ m[i][j] # 0)
                 /\ \A i, j \in Idx(n) : m[i][j] = m[j][i]
       IN /\ matrix' = m
          /\ graph' = IF ok THEN m ELSE Idle
          /\ pc' = IF ok THEN "tree_graph" ELSE "tree_error"
    /\ Frame({"file"})

FileNext ==
    \/ AdjIncFromFile \/ ReachFromFile \/ RadiusFromFile \/ IsoFromFile
    \/ TravFromFile \/ DijFromFile \/ FwFromFile \/ PrimFromFile
    \/ FlowFromFile \/ ColorFromFile \/ TreeFromFile

SpecFile == FileInit /\ [][FileNext]_vars

\* the matrix has a non-zero entry on its diagonal
HasSelfLoop(m) == \E i \in DOMAIN m : m[i][i] # 0

\* the programs whose from_file has no test of the diagonal
LoopsAllowed == {"adj2reach_graph", "radius_graph"}

\* C21, as stated: a matrix with a non-zero diagonal entry is refused by
\* every validator, so the matrix of every graph built has a zero diagonal
C21_NoSelfLoopAccepted ==
    pc # "from_file" =>
        /\ HasSelfLoop(matrix) => graph = Idle
        /\ graph # Idle => ~ HasSelfLoop(graph)

\* C21: every validator but those of reachability and radius/diameter
\* refuses a matrix with a non-zero diagonal entry, and the matrix of every
\* graph it builds has a zero diagonal; reachability and radius/diameter
\* refuse a matrix only for a value other than 0 and 1 or, for
\* radius/diameter, for asymmetry, never for its diagonal
C21_SelfLoopRefusedWhereTested ==
    /\ (pc # "from_file" /\ pc \notin LoopsAllowed) =>
          /\ HasSelfLoop(matrix) => graph = Idle
          /\ graph # Idle => ~ HasSelfLoop(graph)
    /\ pc = "adj2reach_error" =>
          \E i, j \in DOMAIN matrix : matrix[i][j] \notin {0, 1}
    /\ pc = "radius_error" =>
          \E i, j \in DOMAIN matrix :
              matrix[i][j] \notin {0, 1} \/ matrix[i][j] # matrix[j][i]

\* Prim's validator has refused a matrix whose only fault is a 1 on the
\* diagonal
C21_Witness ==
    /\ pc = "prim_error" /\ graph = Idle
    /\ Len0(matrix) = 2
    /\ matrix[0][0] = 1 /\ matrix[1][1] = 0
    /\ matrix[0][1] = 1 /\ matrix[1][0] = 1

\* ------------------------------------------------ maximum flow, minimum cut
RECURSIVE SumOver(_, _)
SumOver(W, P) ==
    IF P = {} THEN 0
    ELSE LET p == CHOOSE q \in P : TRUE
         IN W[p[1]][p[2]] + SumOver(W, P \ {p})

\* the capacity of the cut (S, V \ S)
CutCapacity(W, S) ==
    SumOver(W, {p \in (DOMAIN W) \X (DOMAIN W) : p[1] \in S /\ p[2] \notin S})

\* the flow on u -> v that the residual network stands for
FlowOn(u, v) ==
    IF cap[u][v] - residual[u][v] > 0 THEN cap[u][v] - residual[u][v] ELSE 0

\* what leaves v less what enters it, over the vertices below n
RECURSIVE NetUpTo(_, _)
NetUpTo(v, n) ==
    IF n = 0 THEN 0
    ELSE FlowOn(v, n - 1) - FlowOn(n - 1, v) + NetUpTo(v, n - 1)

NetOut(v) == NetUpTo(v, Len0(cap))

\* C22: for s # t the value returned by max_flow_ford_fulkerson(s, t) is the
\* value of a flow that respects every capacity and is conserved at every
\* inner vertex, and it equals the least capacity of an s-t cut: it is the
\* maximum flow.
C22_MaxFlowIsMinCut ==
    (pc = "flow_done" /\ src # snk) =>
        LET V == DOMAIN cap
            cuts == {CutCapacity(cap, S) :
                        S \in {T \in SUBSET V : src \in T /\ snk \notin T}}
        IN /\ max_flow \in cuts
           /\ \A c \in cuts : max_flow <= c
           /\ \A u, v \in V : FlowOn(u, v) <= cap[u][v]
           /\ \A v \in V \ {src, snk} : NetOut(v) = 0
           /\ NetOut(src) = max_flow

\* the six-vertex network: the flow of 2 from 0 to 5 was reached by taking
\* the edge 1 -> 2 back
C22_Witness ==
    /\ pc = "flow_done" /\ Len0(cap) = 6 /\ src = 0 /\ snk = 5
    /\ max_flow = 2
    /\ Len(augmenting_paths) = 2
    /\ augmenting_paths[2][1] = <<0, 3, 2, 1, 4, 5>>
    /\ residual[1][2] = 1

\* ------------------------------------------------- Prim: the tree is minimum
\* the undirected edges of a symmetric weight matrix
WeightedEdges(W) == {e \in SUBSET DOMAIN W : \E u, v \in e : e = {u, v} /\ u # v /\ W[u][v] > 0}

RECURSIVE TreeWeight(_, _)
TreeWeight(W, T) ==
    IF T = {} THEN 0
    ELSE LET e == CHOOSE f \in T : TRUE
             u == CHOOSE x \in e : TRUE
             v == CHOOSE x \in e : x # u
         IN W[u][v] + TreeWeight(W, T \ {e})

\* the spanning trees of the graph: n - 1 of its edges without a cycle
SpanningTrees(W) ==
    {T \in SUBSET WeightedEdges(W) : Cardinality(T) = Len0(W) - 1 /\ Acyclic(T)}

\* C23: on a connected symmetric matrix of positive weights the total weight
\* returned by prim_mst() is the least total weight of a spanning tree: no
\* spanning tree of the graph weighs less, and the edges returned are one
\* that weighs exactly that.
C23_PrimMinimum ==
    (pc = "prim_done" /\ Len0(w) >= 1) =>
        LET trees == SpanningTrees(w)
        IN /\ \A T \in trees : total_weight <= TreeWeight(w, T)
           /\ EdgeSets(mst_edges) \in trees
           /\ total_weight = TreeWeight(w, EdgeSets(mst_edges))

\* a tree is returned for a graph that has a heavier spanning tree as well
C23_Witness ==
    /\ pc = "prim_done" /\ Len0(w) = 4
    /\ \E T \in SpanningTrees(w) : TreeWeight(w, T) > total_weight
    /\ total_weight = SumWeights(mst_edges)

\* ------------------------------------- Floyd-Warshall: the distances are least
\* the directed paths of two vertices or more that visit no vertex twice
SimplePaths(W) ==
    {q \in UNION {DistinctSeqs(DOMAIN W, k) : k \in 2 .. Len0(W)} :
        \A x \in 1 .. Len(q) - 1 : W[q[x]][q[x + 1]] # 0}

\* C24: on a signed matrix with zero diagonal and no negative cycle
\* floyd_warshall() returns dist with dist[i][i] = 0 and, for i # j,
\* dist[i][j] the least total weight of a directed path from i to j, the
\* unreachable value exactly when there is no such path.
C24_FloydDistancesLeast ==
    pc = "fw_done" =>
        LET all == SimplePaths(w)
        IN \A i, j \in DOMAIN w :
               IF i = j THEN fw_dist[i][j] = Fin(0)
               ELSE LET ws == {PathWeight(w, q) :
                                  q \in {p \in all : p[1] = i /\ p[Len(p)] = j}}
                    IN /\ fw_dist[i][j] = INF <=> ws = {}
                       /\ ws # {} =>
                             /\ fw_dist[i][j].val \in ws
                             /\ ~ fw_dist[i][j].inf
                             /\ \A x \in ws : fw_dist[i][j].val <= x

\* the direct arc from 0 to 2 costs more than the way round through 1,
\* which ends with a negative arc
C24_Witness ==
    /\ pc = "fw_done" /\ Len0(w) = 3
    /\ w[0][2] = 1 /\ w[0][1] = 1 /\ w[1][2] = -1
    /\ fw_dist[0][2] = Fin(0)

\* ------------------------------------------- Floyd-Warshall: reconstruct_path
\* C25: after floyd_warshall() has returned, reconstruct_path(nxt, s, t)
\* returns: the empty list exactly when s # t and dist[s][t] is the
\* unreachable value; the list of s alone when s = t; otherwise a list that
\* starts at s, ends at t, goes from each vertex a to its nxt[a][t] over an
\* existing arc, whose weights add up to dist[s][t], and that holds no
\* vertex twice, so the walk ends within n - 1 steps.
C25_FloydPathFollowsNext ==
    pc = "fw_path" =>
        LET s == start
            t == target
            q == fw_path
        IN /\ q = <<>> <=> (s # t /\ fw_dist[s][t] = INF)
           /\ s = t => q = <<s>>
           /\ q # <<>> =>
                 /\ q[1] = s /\ q[Len(q)] = t
                 /\ Len(q) <= Len0(w)
                 /\ \A x \in 1 .. Len(q) - 1 :
                       /\ q[x + 1] = nxt[q[x]][t]
                       /\ w[q[x]][q[x + 1]] # 0
                 /\ fw_dist[s][t] = Fin(PathWeight(w, q))
                 /\ Cardinality({q[x] : x \in 1 .. Len(q)}) = Len(q)

\* a path of three vertices has been rebuilt in a graph where the last
\* vertex leads back to the first
C25_Witness ==
    /\ pc = "fw_path" /\ Len0(w) = 3
    /\ Len(fw_path) = 3
    /\ w[fw_path[3]][fw_path[1]] # 0
    /\ fw_dist[start][target] = Fin(PathWeight(w, fw_path))

\* ------------------------------------------------- traversal: the two orders
\* the vertices of a sequence
Range(q) == {q[x] : x \in 1 .. Len(q)}

\* the vertices that can be reached from those of S
RECURSIVE Closure(_, _)
Closure(W, S) ==
    LET T == S \cup {u \in DOMAIN W : \E v \in S : W[v][u] > 0}
    IN IF T = S THEN S ELSE Closure(W, T)

\* recursive depth-first search: v is visited, then each neighbour of v in
\* ascending order that has not been visited by then
RECURSIVE RecDfs(_, _, _)
RECURSIVE RecDfsOver(_, _, _)
RecDfs(W, v, order) ==
    RecDfsOver(W, {u \in DOMAIN W : W[v][u] > 0}, Append(order, v))

RecDfsOver(W, ns, order) ==
    IF ns = {} THEN order
    ELSE LET u == CHOOSE x \in ns : \A y \in ns : x <= y
         IN RecDfsOver(W, ns \ {u},
                       IF u \in Range(order) THEN order ELSE RecDfs(W, u, order))

\* the vertices within k arcs of s
RECURSIVE Ball(_, _, _)
Ball(W, s, k) ==
    IF k = 0 THEN {s}
    ELSE LET B == Ball(W, s, k - 1)
         IN B \cup {u \in DOMAIN W : \E v \in B : W[v][u] > 0}

\* the number of arcs on a shortest path from s to v, for v reachable
Hops(W, s, v) == CHOOSE k \in 0 .. Len0(W) : v \in Ball(W, s, k) /\ \A j \in 0 .. (k - 1) : v \notin Ball(W, s, j)

\* C26: for every graph and start vertex the order returned by
\* dfs_iterative(start) is the preorder of the recursive depth-first search
\* that visits the unvisited neighbours of each vertex in ascending order;
\* it holds every vertex reachable from start exactly once and no other.
C26_DfsIsRecursivePreorder ==
    pc = "trav_done" =>
        /\ dfs_order = RecDfs(w, trav_at, <<>>)
        /\ Range(dfs_order) = Closure(w, {trav_at})
        /\ Cardinality(Range(dfs_order)) = Len(dfs_order)

\* a vertex was on the stack twice: 2 was pushed as a neighbour of 0 and
\* again as a neighbour of 1, and was visited from 1
C26_Witness ==
    /\ pc = "trav_done" /\ trav_at = 0 /\ Len0(w) >= 3
    /\ w[0][1] > 0 /\ w[0][2] > 0 /\ w[1][2] > 0
    /\ SubSeq(dfs_order, 1, 3) = <<0, 1, 2>>

\* C27: for every graph and start vertex the order returned by
\* bfs_iterative(start) begins with start, holds every vertex reachable
\* from start exactly once and no other, and the number of arcs from start
\* never decreases along it.
C27_BfsLevelByLevel ==
    pc = "trav_done" =>
        /\ bfs_order[1] = trav_at
        /\ Range(bfs_order) = Closure(w, {trav_at})
        /\ Cardinality(Range(bfs_order)) = Len(bfs_order)
        /\ \A x \in 1 .. Len(bfs_order) - 1 :
              Hops(w, trav_at, bfs_order[x]) <= Hops(w, trav_at, bfs_order[x + 1])

\* the order differs from the depth-first one: the second neighbour of the
\* start comes before a vertex two arcs away
C27_Witness ==
    /\ pc = "trav_done" /\ Len0(w) = 4 /\ Len(bfs_order) = 4
    /\ Hops(w, trav_at, bfs_order[3]) = 1
    /\ Hops(w, trav_at, bfs_order[4]) = 2
    /\ bfs_order # dfs_order

\* ------------------------------------------------ max-flow: each augmentation
\* C28: in max_flow_ford_fulkerson with s # t every augmentation recorded
\* has a bottleneck of at least 1; at the moment it is found its path goes
\* from s to t, holds no vertex twice, has a positive residual capacity on
\* every edge, the least of them being the bottleneck, and has the fewest
\* edges of all paths from s to t in the residual network.
C28_AugmentationShortest ==
    /\ (FlowRunning /\ src # snk) =>
          \A k \in 1 .. Len(augmenting_paths) : augmenting_paths[k][2] >= 1
    /\ (pc = "flow_update" /\ edge_i = 0 /\ src # snk) =>
          /\ augmenting_paths[Len(augmenting_paths)] = <<path, bottleneck>>
          /\ bottleneck >= 1
          /\ path[1] = src /\ path[Len(path)] = snk
          /\ Cardinality(Range(path)) = Len(path)
          /\ \A x \in 1 .. Len(path) - 1 : residual[path[x]][path[x + 1]] >= bottleneck
          /\ \E x \in 1 .. Len(path) - 1 : residual[path[x]][path[x + 1]] = bottleneck
          /\ Len(path) - 1 = Hops(residual, src, snk)

\* the second augmentation of the six-vertex network has been found: five
\* edges, one of them the reverse of an edge of the first
C28_Witness ==
    /\ pc = "flow_update" /\ edge_i = 0 /\ src = 0 /\ snk = 5
    /\ Len(augmenting_paths) = 2
    /\ Len(path) = 6
    /\ \E x \in 1 .. 5 : cap[path[x]][path[x + 1]] = 0 /\ residual[path[x]][path[x + 1]] = 1

\* ------------------------------------------- max-flow: the loop ends, cap stays
\* C29: for every network of non-negative integer capacities and every
\* pair of vertices s # t the augmentation loop of max_flow_ford_fulkerson
\* ends: a call that has entered the loop returns.
C29_AugmentationTerminates ==
    (pc = "flow_loop" /\ src # snk) ~> (pc = "flow_done")

\* a call has returned after the search failed in a residual network that
\* two augmentations had changed
C29_Witness ==
    /\ pc = "flow_done" /\ src # snk
    /\ Len(augmenting_paths) = 2
    /\ residual # cap
    /\ ~ BfsOnResidual(residual, src, snk).found

====
